---- MODULE Spec2Model ----
(***************************************************************************)
(* A model of the brrr execution engine (TypeScript port): the scheduler   *)
(* (Brrr), the worker loop (Wrrrker), the Memory facade with its           *)
(* compare-and-swap retry loop, the in-memory Store/Cache and Queue.       *)
(*                                                                         *)
(* Every store or queue operation a worker awaits is one step of that      *)
(* worker, so that workers in different processes interleave between any   *)
(* two of them.  A memo key JSON.stringify([taskName, args]) is the pair   *)
(* <<taskName, arg>>; a queue message `${rootId}/${memoKey}` is the pair   *)
(* <<rootId, memoKey>>.                                                    *)
(***************************************************************************)
EXTENDS Integers, Sequences, FiniteSets, TLC

VARIABLES
  scn,             \* the client program and the number of worker processes
  innerByteStore,  \* InMemoryStore.innerByteStore: MemKey -> bytes
  spawnCountStore, \* InMemoryStore.spawnCountStore: rootId -> counter
  messages,        \* InMemoryQueue.messages (FIFO)
  cl,              \* the client calling Brrr.schedule for each root in turn
  wk,              \* each worker's position in Wrrrker.loop and its locals
  execs,           \* history: task-body executions per memo key
  enq,             \* history: putMessage calls per root id
  nsched,          \* history: scheduleJob enqueues per child message
  nset,            \* history: successful setValue calls per memo key
  late,            \* history: parent messages registered after the child completed
  eng,             \* queue closed flag, and each engine's worker singleton and wrrrk() calls
  out,             \* the calls made directly on one component (a task, gather, the
                   \* store, the queue, the registry, withCas) and what came back
  woke             \* history: <<parent, child>> for every wake-up message enqueued

vars == <<scn, innerByteStore, spawnCountStore, messages, cl, wk,
          execs, enq, nsched, nset, late, eng, out, woke>>

----------------------------------------------------------------------------
(* Bounds and program constants *)

\* Brrr.SPAWN_LIMIT (500 in the source), scaled down.
SPAWN_LIMIT == 6

\* Memory.CAS_RETRY_LIMIT
CAS_RETRY_LIMIT == 100

\* Distinct values of Math.floor(Date.now() / 1000) a worker may observe.
MaxTime == 2

\* wrrrk() calls per engine that start a worker, the first one included.
MaxWrrrk == 3

\* Process crashes in a run.
MaxCrashes == 1

\* Largest argument of a task invoked by the client itself.
MaxArg == 3

\* Invocations the client awaits together (Task.map's argument lists).
MaxInvocations == 2

\* Invocations handed to one gather call.
MaxGather == 3

\* putMessage calls made on a queue exercised on its own.
MaxPuts == 4

\* addPendingReturn calls made one after the other on a store.
MaxRegistrations == 4

\* Longest task name and string argument of a call whose message is parsed.
MaxStr == 3

\* schedule calls made by each of the concurrent clients.
MaxSchedules == 2

Workers == {1, 2}

Times == 1..MaxTime

----------------------------------------------------------------------------
(* Maps (JavaScript Map) as functions with a growing domain *)

EmptyMap == [x \in {} |-> 0]

Has(m, k) == k \in DOMAIN m

Put(m, k, v) == [x \in (DOMAIN m) \cup {k} |-> IF x = k THEN v ELSE m[x]]

Del(m, k) == [x \in (DOMAIN m) \ {k} |-> m[x]]

Cnt(m, k) == IF k \in DOMAIN m THEN m[k] ELSE 0

Bump(m, k) == Put(m, k, Cnt(m, k) + 1)

RECURSIVE SumSeq(_)
SumSeq(s) == IF s = <<>> THEN 0 ELSE Head(s) + SumSeq(Tail(s))

----------------------------------------------------------------------------
(* The registered tasks: the task bodies of the test suites *)

\* The child calls a body invokes, in order.
TaskKids(c) ==
  CASE c[1] = "foo"  -> IF c[2] = 0 THEN <<>> ELSE << <<"foo", c[2] - 1>> >>
    [] c[1] = "fan"  -> [i \in 1..c[2] |-> <<"one", i - 1>>]
    [] c[1] = "seq"  -> [i \in 1..c[2] |-> <<"one", i - 1>>]
    [] c[1] = "dup"  -> [i \in 1..c[2] |-> <<"same", 1>>]
    [] c[1] = "mid"  -> << <<"tick", 0>> >>
    [] c[1] = "boom" -> IF c[2] = 0 THEN <<>> ELSE << <<"boom", c[2] - 1>> >>
    [] c[1] = "triangular_sum" ->
         IF c[2] = 0 THEN <<>> ELSE << <<"triangular_sum", c[2] - 1>> >>
    [] OTHER         -> <<>>

\* The names registered with Brrr.task; a call scheduled by name alone
\* ("ghost") need not be among them.
Tasks == {"foo", "fan", "seq", "dup", "one", "same", "mid", "tick", "boom",
          "triangular_sum"}

TaskRegistered(t) == t \in Tasks

\* The body throws an error of its own (boom(0) throws MyError)
TaskThrows(c) == c[1] = "boom" /\ c[2] = 0

\* TRUE when the body fans out with Task.map (Brrr.gather), FALSE when it
\* awaits Task.invoke directly.
TaskGather(c) == c[1] \in {"fan", "dup"}

\* The values the body may return, given its children's results.  Every
\* task of the suites is a function of its arguments; "tick" is a body that
\* is not (it returns a reading that differs from run to run).  The leaf
\* one(i) returns 2^i where the suite's returns 1, so that the parent's sum
\* tells which children's results went into it.
TaskReturn(c, results) ==
  CASE c[1] = "foo"  -> IF c[2] = 0 THEN {0} ELSE {results[1]}
    [] c[1] = "fan"  -> {SumSeq(results)}
    [] c[1] = "seq"  -> {SumSeq(results)}
    [] c[1] = "dup"  -> {SumSeq(results)}
    [] c[1] = "one"  -> {2 ^ c[2]}
    [] c[1] = "same" -> {c[2]}
    [] c[1] = "mid"  -> {results[1]}
    [] c[1] = "boom" -> {results[1]}
    [] c[1] = "triangular_sum" ->
         IF c[2] = 0 THEN {c[2]} ELSE {c[2] + results[1]}
    [] c[1] = "tick" -> {1, 2}
    [] OTHER         -> {0}

----------------------------------------------------------------------------
(* Codec, MemKey and record formats *)

\* NaiveCall: memoKey = JSON.stringify([taskName, args])
MemoKey(taskName, arg) == <<taskName, arg>>

\* MemKey.toString(): `${type}/${id}`
MemKey(type, id) == <<type, id>>

\* NaiveCodec.encodeCall / the JSON of a return value
EncodeJson(v) == <<"json", v>>

\* NaiveCodec.decodeReturn
DecodeReturn(bytes) == bytes[2]

\* Memory.setCall's payload {taskName, callBytes}
CallPayload(c) == <<"call", c[1], EncodeJson(c[2])>>

\* Memory.getCallBytes + NaiveCodec.invokeTask's JSON.parse: the call a
\* stored record stands for
CallOfPayload(p) == MemoKey(p[2], p[3][2])

\* Queue message bodies `${rootId}/${memoKey}` and Wrrrker.parseCallId
CallId(rootId, memoKey) == <<rootId, memoKey>>

TaskRank(t) ==
  CASE t = "dup" -> 1 [] t = "fan" -> 2 [] t = "foo" -> 3 [] t = "mid" -> 4
    [] t = "one" -> 5 [] t = "same" -> 6 [] t = "boom" -> 7 [] OTHER -> 8

\* The order of Array.prototype.sort on the message strings
MsgRank(m) == (m[1] * 10 + TaskRank(m[2][1])) * 100 + m[2][2]

RECURSIVE SortedSeq(_)
SortedSeq(S) ==
  IF S = {} THEN <<>>
  ELSE LET m == CHOOSE x \in S : \A y \in S : MsgRank(x) <= MsgRank(y)
       IN  <<m>> \o SortedSeq(S \ {m})

SeqToSet(s) == {s[i] : i \in 1..Len(s)}

\* PendingReturns: scheduledAt 0 is the empty marker
PendingReturns(scheduledAt, returns) ==
  [scheduledAt |-> scheduledAt, returns |-> returns]

\* PendingReturns.encode: [scheduledAt, sorted returns]
PrEncode(p) == <<"pr", p.scheduledAt, SortedSeq(p.returns)>>

\* Mutant: decode loses scheduledAt
PrDecodeNoFlag(bytes) == PendingReturns(0, SeqToSet(bytes[3]))

\* PendingReturns.decode
PrDecode(bytes) == PendingReturns(bytes[2], SeqToSet(bytes[3]))

----------------------------------------------------------------------------
(* Client programs *)

Scenarios ==
  { [name |-> "depth",   roots |-> << <<"foo", SPAWN_LIMIT + 3>> >>, nw |-> 1],
    [name |-> "breadth", roots |-> << <<"fan", SPAWN_LIMIT + 4>> >>, nw |-> 1],
    [name |-> "cached",  roots |-> << <<"dup", SPAWN_LIMIT + 5>> >>, nw |-> 1],
    [name |-> "gather",  roots |-> << <<"fan", (SPAWN_LIMIT - 1) \div 2>> >>, nw |-> 1],
    [name |-> "gather",  roots |-> << <<"fan", (SPAWN_LIMIT - 1) \div 2>> >>, nw |-> 2],
    [name |-> "chain",   roots |-> << <<"foo", 2>> >>, nw |-> 1],
    [name |-> "chain",   roots |-> << <<"foo", 2>> >>, nw |-> 2],
    [name |-> "shared",  roots |-> << <<"mid", 1>>, <<"mid", 2>> >>, nw |-> 2],
    [name |-> "again",   roots |-> << <<"foo", 1>>, <<"foo", 0>>, <<"foo", 1>> >>,
                         nw |-> 1],
    [name |-> "manual",  roots |-> << <<"seq", SPAWN_LIMIT + 3>> >>, nw |-> 1] }

----------------------------------------------------------------------------
(* Initial state *)

NoMsg == <<0, <<"", 0>>>>

NoPending == PendingReturns(0, {})

\* Every worker process has called wrrrk(): its engine's singleton is set and
\* its loop is about to poll; the queue is open
Eng0(nw) ==
  [closed |-> FALSE,
   singleton |-> [w \in Workers |-> w <= nw],
   alive |-> [w \in Workers |-> IF w <= nw THEN 1 ELSE 0],
   wrrrks |-> [w \in Workers |-> IF w <= nw THEN 1 ELSE 0],
   rejected |-> [w \in Workers |-> FALSE],
   crashes |-> 0,
   setup |-> TRUE]

Local0 ==
  [pc |-> "poll", msg |-> NoMsg, call |-> <<"", 0>>, idx |-> 0,
   calls |-> <<>>, acc |-> <<>>, ret |-> <<>>, existing |-> NoPending, expected |-> <<>>, again |-> FALSE,
   attempt |-> 0, handled |-> {}, err |-> "", kae |-> FALSE, woken |-> <<>>]

Init ==
  /\ scn \in Scenarios
  /\ innerByteStore = EmptyMap
  /\ spawnCountStore = EmptyMap
  /\ messages = <<>>
  /\ cl = [pc |-> "has_call", idx |-> 1, rootId |-> 0]
  /\ wk = [w \in Workers |-> Local0]
  /\ execs = EmptyMap
  /\ enq = EmptyMap
  /\ nsched = EmptyMap
  /\ nset = EmptyMap
  /\ late = {}
  /\ eng = Eng0(scn.nw)
  /\ out = <<>>
  /\ woke = {}

----------------------------------------------------------------------------
(* Store and Cache (InMemoryStore) *)

\* Mutant: the presence check is missing (an unconditional set)
SetNewValueOverwrite(store, key, value) ==
  [ok |-> TRUE, store |-> Put(store, key, value)]

\* Store.setNewValue: ok iff the key is absent (else CompareMismatch)
SetNewValue(store, key, value) ==
  IF Has(store, key) THEN [ok |-> FALSE, store |-> store]
  ELSE [ok |-> TRUE, store |-> Put(store, key, value)]

\* Mutant: a missing key counts as a match
CompareAndSetUpsert(store, key, value, expected) ==
  IF Has(store, key) /\ store[key] # expected
  THEN [ok |-> FALSE, store |-> store]
  ELSE [ok |-> TRUE, store |-> Put(store, key, value)]

\* Store.compareAndSet: ok iff the key holds exactly `expected`
CompareAndSet(store, key, value, expected) ==
  IF ~Has(store, key) \/ store[key] # expected
  THEN [ok |-> FALSE, store |-> store]
  ELSE [ok |-> TRUE, store |-> Put(store, key, value)]

\* Mutant: the entry is compared and left in place
CompareAndDeleteKeep(store, key, expected) ==
  [ok |-> Has(store, key) /\ store[key] = expected, store |-> store]

\* Store.compareAndDelete: ok iff the key holds exactly `expected`
CompareAndDelete(store, key, expected) ==
  IF ~Has(store, key) \/ store[key] # expected
  THEN [ok |-> FALSE, store |-> store]
  ELSE [ok |-> TRUE, store |-> Del(store, key)]

\* Cache.incr: the counters after the increment (the new value is returned)
Incr(counters, key) == Put(counters, key, Cnt(counters, key) + 1)

\* Mutant: the limit is compared with >=
SpawnLimitOffByOne(n) == n >= SPAWN_LIMIT

\* Mutant: one more job than the limit is let through
SpawnLimitOneMore(n) == n > SPAWN_LIMIT + 1

\* Brrr.putJob's guard on the value incr returned
SpawnLimitExceeded(n) == n > SPAWN_LIMIT

\* Mutant: setValue reports success and writes nothing
SetValueDropped(store, memoKey, payload) == [err |-> "", store |-> store]

\* Memory.setValue: setNewValue under `value`; CompareMismatch becomes
\* KeyAlreadyExists
SetValue(store, memoKey, payload) ==
  LET r == SetNewValue(store, MemKey("value", memoKey), payload)
  IN  [err |-> IF r.ok THEN "" ELSE "KeyAlreadyExists", store |-> r.store]

\* Mutant: the catch rethrows every error
SwallowedNothing(err) == FALSE

\* Wrrrker.handleMessage's catch around setValue: the errors it swallows
Swallowed(err) == err = "KeyAlreadyExists"

\* Mutant: the new record is stamped before scheduleJob has run
NewPendingReturnsStamped(newReturn) == PendingReturns(1, {newReturn})

\* Memory.addPendingReturn: the record a first waiter creates
NewPendingReturns(newReturn) == PendingReturns(0, {newReturn})

\* Mutant: the scheduledAt flag is ignored
ShouldScheduleAlways(existing) == TRUE

\* Memory.addPendingReturn: whether scheduleJob is to be called
ShouldSchedule(existing) == existing.scheduledAt = 0

\* Mutant: the operands of Set.difference swapped
HandlesSwapped(pending, handled) == SortedSeq(handled \ pending.returns)

\* Mutant: every attempt passes all the waiters of the record
HandlesAll(pending, handled) == SortedSeq(pending.returns)

\* Memory.withPendingReturnsRemove: the waiters passed to fn on this attempt
Handles(pending, handled) == SortedSeq(pending.returns \ handled)

----------------------------------------------------------------------------
(* Brrr.schedule, called by the client for each root of its program *)

ClientCall == scn.roots[cl.idx]

\* Mutant: schedule does not look for the call record
ScheduleUnchecked ==
  /\ cl.pc = "has_call"
  /\ cl.idx <= Len(scn.roots)
  /\ cl' = [cl EXCEPT !.pc = "set_call"]
  /\ UNCHANGED <<woke, out, scn, innerByteStore, spawnCountStore, messages, wk,
                 execs, enq, nsched, nset, late, eng>>

\* schedule: makeCall, hasCall; return when the call record exists
ScheduleHasCall ==
  /\ cl.pc = "has_call"
  /\ cl.idx <= Len(scn.roots)
  /\ cl' = IF Has(innerByteStore, MemKey("call", ClientCall))
           THEN [cl EXCEPT !.idx = @ + 1]
           ELSE [cl EXCEPT !.pc = "set_call"]
  /\ UNCHANGED <<woke, out, scn, innerByteStore, spawnCountStore, messages, wk,
                 execs, enq, nsched, nset, late, eng>>

\* scheduleRootCall: setCall, then a fresh rootId
ScheduleSetCall ==
  /\ cl.pc = "set_call"
  /\ innerByteStore' = Put(innerByteStore, MemKey("call", ClientCall),
                           CallPayload(ClientCall))
  /\ cl' = [cl EXCEPT !.pc = "incr", !.rootId = @ + 1]
  /\ UNCHANGED <<woke, out, scn, spawnCountStore, messages, wk, execs, enq, nsched, nset, late, eng>>

\* putJob: incr, SpawnLimit when the counter passed the limit
ScheduleIncr ==
  /\ cl.pc = "incr"
  /\ spawnCountStore' = Incr(spawnCountStore, cl.rootId)
  /\ cl' = [cl EXCEPT !.pc = IF SpawnLimitExceeded(spawnCountStore'[cl.rootId])
                             THEN "failed" ELSE "put"]
  /\ UNCHANGED <<woke, out, scn, innerByteStore, messages, wk, execs, enq, nsched, nset, late, eng>>

\* putJob: queue.putMessage
SchedulePut ==
  /\ cl.pc = "put"
  /\ messages' = Append(messages, CallId(cl.rootId, ClientCall))
  /\ enq' = Bump(enq, cl.rootId)
  /\ cl' = [cl EXCEPT !.pc = "has_call", !.idx = @ + 1]
  /\ UNCHANGED <<woke, out, scn, innerByteStore, spawnCountStore, wk, execs, nsched, nset, late, eng>>

----------------------------------------------------------------------------
(* Wrrrker.loop / handleMessage, one worker process w *)

Me(w) == wk[w]

\* Worker process w runs in this scenario and is at pc
At(w, pc) == w <= scn.nw /\ wk[w].pc = pc

Set(w, r) == wk' = [wk EXCEPT ![w] = r]

\* An error that leaves loop(): the worker terminates
Die(w, e) == [Local0 EXCEPT !.pc = "dead", !.err = e, !.msg = Me(w).msg]

\* Mutant: the loop gives up one attempt earlier
CasExhaustedEarly(attempt) == attempt = CAS_RETRY_LIMIT - 1

\* withCas: `if (attempt === this.CAS_RETRY_LIMIT)`, attempt counted from 0
CasExhausted(attempt) == attempt = CAS_RETRY_LIMIT

\* withCas: CompareMismatch retries fn until attempt === CAS_RETRY_LIMIT
Retry(w, pc) ==
  IF CasExhausted(Me(w).attempt) THEN Die(w, "CasRetryLimit")
  ELSE [Me(w) EXCEPT !.pc = pc, !.attempt = @ + 1, !.existing = NoPending,
                     !.expected = <<>>, !.again = FALSE, !.calls =
                       IF pc = "rm_get" THEN <<>> ELSE @,
                     !.idx = IF pc = "rm_get" THEN 0 ELSE @]

\* Mutant: the catch of handleMessage rethrows nothing
RethrownNothing(err) == FALSE

\* handleMessage's catch: every error but Defer is thrown on, out of loop()
Rethrown(err) == err # "Defer"

\* loop: queue.getMessage on an empty queue raises QueueIsEmpty; continue
PollEmpty(w) ==
  /\ At(w, "poll")
  /\ ~eng.closed
  /\ messages = <<>>
  /\ UNCHANGED vars

\* Mutant: getMessage reads the head of the queue without removing it
PollPeek(w) ==
  /\ At(w, "poll")
  /\ ~eng.closed
  /\ messages # <<>>
  /\ LET m == Head(messages)
         ck == MemKey("call", m[2])
     IN  /\ messages' = messages
         /\ IF ~Has(innerByteStore, ck)
            THEN /\ Set(w, [Die(w, "ValueNotFound") EXCEPT !.msg = m])
                 /\ UNCHANGED execs
            ELSE LET c == CallOfPayload(innerByteStore[ck])
                 IN  IF ~TaskRegistered(c[1])
                     THEN /\ Set(w, IF Rethrown("TaskNotFound")
                                    THEN [Die(w, "TaskNotFound") EXCEPT !.msg = m]
                                    ELSE Local0)
                          /\ UNCHANGED execs
                     ELSE
                     /\ execs' = Bump(execs, m[2])
                     /\ IF TaskThrows(c)
                        THEN Set(w, IF Rethrown("UserError")
                                    THEN [Die(w, "UserError") EXCEPT !.msg = m]
                                    ELSE Local0)
                        ELSE IF TaskKids(c) = <<>>
                        THEN \E r \in TaskReturn(c, <<>>) :
                               Set(w, [Local0 EXCEPT !.pc = "set_value", !.msg = m,
                                         !.call = c, !.ret = EncodeJson(r)])
                        ELSE Set(w, [Local0 EXCEPT !.pc = "invoke", !.msg = m,
                                       !.call = c, !.idx = 1])
  /\ UNCHANGED <<woke, out, scn, innerByteStore, spawnCountStore, cl, enq, nsched, nset, late, eng>>

\* loop: getMessage; handleMessage: parseCallId, getCallBytes, callTask
\* entering the task body (a body without child calls returns at once)
Poll(w) ==
  /\ At(w, "poll")
  /\ ~eng.closed
  /\ messages # <<>>
  /\ LET m == Head(messages)
         ck == MemKey("call", m[2])
     IN  /\ messages' = Tail(messages)
         /\ IF ~Has(innerByteStore, ck)
            THEN /\ Set(w, [Die(w, "ValueNotFound") EXCEPT !.msg = m])
                 /\ UNCHANGED execs
            ELSE LET c == CallOfPayload(innerByteStore[ck])
                 IN  IF ~TaskRegistered(c[1])
                     THEN /\ Set(w, IF Rethrown("TaskNotFound")
                                    THEN [Die(w, "TaskNotFound") EXCEPT !.msg = m]
                                    ELSE Local0)
                          /\ UNCHANGED execs
                     ELSE
                     /\ execs' = Bump(execs, m[2])
                     /\ IF TaskThrows(c)
                        THEN Set(w, IF Rethrown("UserError")
                                    THEN [Die(w, "UserError") EXCEPT !.msg = m]
                                    ELSE Local0)
                        ELSE IF TaskKids(c) = <<>>
                        THEN \E r \in TaskReturn(c, <<>>) :
                               Set(w, [Local0 EXCEPT !.pc = "set_value", !.msg = m,
                                         !.call = c, !.ret = EncodeJson(r)])
                        ELSE Set(w, [Local0 EXCEPT !.pc = "invoke", !.msg = m,
                                       !.call = c, !.idx = 1])
  /\ UNCHANGED <<woke, out, scn, innerByteStore, spawnCountStore, cl, enq, nsched, nset, late, eng>>

\* Mutant: Task.invoke does not look the value up and always raises Defer
InvokeNoCache(w) ==
  /\ At(w, "invoke")
  /\ LET me == Me(w)
         kids == TaskKids(me.call)
         kid == kids[me.idx]
         vk == MemKey("value", kid)
         found == FALSE
         acc1 == IF found THEN Append(me.acc, DecodeReturn(innerByteStore[vk]))
                 ELSE me.acc
         calls1 == IF found THEN me.calls ELSE Append(me.calls, kid)
     IN  IF ~found /\ ~TaskGather(me.call)
         THEN Set(w, [me EXCEPT !.pc = "set_call", !.calls = <<kid>>,
                                !.idx = 1, !.acc = <<>>])
         ELSE IF me.idx < Len(kids)
         THEN Set(w, [me EXCEPT !.idx = @ + 1, !.acc = acc1, !.calls = calls1])
         ELSE IF calls1 # <<>>
         THEN Set(w, [me EXCEPT !.pc = "set_call", !.calls = calls1,
                                !.idx = 1, !.acc = <<>>])
         ELSE \E r \in TaskReturn(me.call, acc1) :
                Set(w, [me EXCEPT !.pc = "set_value", !.ret = EncodeJson(r),
                                  !.idx = 0, !.acc = <<>>])
  /\ UNCHANGED <<woke, out, scn, innerByteStore, spawnCountStore, messages, cl,
                 execs, enq, nsched, nset, late, eng>>

\* Mutant: Task.invoke runs the child's function in place when its value is
\* not cached, as it does outside a worker
InvokeInline(w) ==
  /\ At(w, "invoke")
  /\ LET me == Me(w)
         kids == TaskKids(me.call)
         kid == kids[me.idx]
         vk == MemKey("value", kid)
         found == Has(innerByteStore, vk)
         acc1 == IF found THEN Append(me.acc, DecodeReturn(innerByteStore[vk]))
                 ELSE Append(me.acc, 0)
     IN  /\ execs' = IF found THEN execs ELSE Bump(execs, kid)
         /\ IF me.idx < Len(kids)
            THEN Set(w, [me EXCEPT !.idx = @ + 1, !.acc = acc1])
            ELSE \E r \in TaskReturn(me.call, acc1) :
                   Set(w, [me EXCEPT !.pc = "set_value", !.ret = EncodeJson(r),
                                     !.idx = 0, !.acc = <<>>])
  /\ UNCHANGED <<woke, out, scn, innerByteStore, spawnCountStore, messages, cl,
                 enq, nsched, nset, late, eng>>

\* Task.invoke inside the body: getValue of the next child; a missing value
\* raises Defer (at once, or collected by gather until every child is read)
Invoke(w) ==
  /\ At(w, "invoke")
  /\ LET me == Me(w)
         kids == TaskKids(me.call)
         kid == kids[me.idx]
         vk == MemKey("value", kid)
         found == Has(innerByteStore, vk)
         acc1 == IF found THEN Append(me.acc, DecodeReturn(innerByteStore[vk]))
                 ELSE me.acc
         calls1 == IF found THEN me.calls ELSE Append(me.calls, kid)
     IN  IF ~found /\ ~TaskGather(me.call)
         THEN Set(w, [me EXCEPT !.pc = "set_call", !.calls = <<kid>>,
                                !.idx = 1, !.acc = <<>>])
         ELSE IF me.idx < Len(kids)
         THEN Set(w, [me EXCEPT !.idx = @ + 1, !.acc = acc1, !.calls = calls1])
         ELSE IF calls1 # <<>>
         THEN Set(w, [me EXCEPT !.pc = "set_call", !.calls = calls1,
                                !.idx = 1, !.acc = <<>>])
         ELSE \E r \in TaskReturn(me.call, acc1) :
                Set(w, [me EXCEPT !.pc = "set_value", !.ret = EncodeJson(r),
                                  !.idx = 0, !.acc = <<>>])
  /\ UNCHANGED <<woke, out, scn, innerByteStore, spawnCountStore, messages, cl,
                 execs, enq, nsched, nset, late, eng>>

\* handleMessage: memory.setValue(memoKey, encodedReturn), KeyAlreadyExists
\* swallowed
StoreValue(w) ==
  /\ At(w, "set_value")
  /\ LET me == Me(w)
         r == SetValue(innerByteStore, me.msg[2], me.ret)
     IN  /\ innerByteStore' = r.store
         /\ nset' = IF r.err = "" THEN Bump(nset, me.msg[2]) ELSE nset
         /\ IF r.err = "" \/ Swallowed(r.err)
            THEN Set(w, [me EXCEPT !.pc = "rm_get", !.kae = r.err # ""])
            ELSE Set(w, Die(w, r.err))
  /\ UNCHANGED <<woke, out, scn, spawnCountStore, messages, cl, execs, enq, nsched, late, eng>>

\* The turn is over: back to the top of loop()
TurnDone == Local0

\* Mutant: the record is read and deleted without calling fn
RemoveGetDeleteOnly(w) ==
  /\ At(w, "rm_get")
  /\ LET me == Me(w)
         pk == MemKey("pending_returns", me.msg[2])
     IN  IF ~Has(innerByteStore, pk)
         THEN Set(w, TurnDone)
         ELSE Set(w, [me EXCEPT !.expected = innerByteStore[pk],
                                !.calls = <<>>, !.idx = 0, !.pc = "rm_del"])
  /\ UNCHANGED <<woke, out, scn, innerByteStore, spawnCountStore, messages, cl,
                 execs, enq, nsched, nset, late, eng>>

\* withPendingReturnsRemove: store.get of the waiter record; NotFound calls
\* fn(new Set()) and returns
RemoveGet(w) ==
  /\ At(w, "rm_get")
  /\ LET me == Me(w)
         pk == MemKey("pending_returns", me.msg[2])
     IN  IF ~Has(innerByteStore, pk)
         THEN Set(w, TurnDone)
         ELSE LET enc == innerByteStore[pk]
                  handles == Handles(PrDecode(enc), me.handled)
              IN  Set(w, [me EXCEPT !.expected = enc, !.calls = handles,
                            !.idx = IF handles = <<>> THEN 0 ELSE 1,
                            !.pc = IF handles = <<>> THEN "rm_del" ELSE "rm_incr"])
  /\ UNCHANGED <<woke, out, scn, innerByteStore, spawnCountStore, messages, cl,
                 execs, enq, nsched, nset, late, eng>>

\* Mutant: the wake-up of a parent bypasses the spawn counter
RemoveIncrUncounted(w) ==
  /\ At(w, "rm_incr")
  /\ Set(w, [Me(w) EXCEPT !.pc = "rm_put"])
  /\ UNCHANGED <<woke, out, scn, innerByteStore, spawnCountStore, messages, cl,
                 execs, enq, nsched, nset, late, eng>>

\* fn(handles) -> scheduleReturnCall(pending) -> putJob: cache.incr
RemoveIncr(w) ==
  /\ At(w, "rm_incr")
  /\ LET me == Me(w)
         rootId == me.calls[me.idx][1]
     IN  /\ spawnCountStore' = Incr(spawnCountStore, rootId)
         /\ IF SpawnLimitExceeded(spawnCountStore'[rootId])
            THEN Set(w, Die(w, "SpawnLimit"))
            ELSE Set(w, [me EXCEPT !.pc = "rm_put"])
  /\ UNCHANGED <<woke, out, scn, innerByteStore, messages, cl, execs, enq, nsched, nset, late, eng>>

\* putJob: queue.putMessage of the parent's message; after the last one the
\* handles join `handled`
RemovePut(w) ==
  /\ At(w, "rm_put")
  /\ LET me == Me(w)
         parent == me.calls[me.idx]
     IN  /\ messages' = Append(messages, CallId(parent[1], parent[2]))
         /\ enq' = Bump(enq, parent[1])
         /\ woke' = woke \cup {<<parent[2], me.msg[2]>>}
         /\ IF me.idx < Len(me.calls)
            THEN Set(w, [me EXCEPT !.pc = "rm_incr", !.idx = @ + 1,
                                  !.woken = Append(@, parent)])
            ELSE Set(w, [me EXCEPT !.pc = "rm_del", !.idx = 0, !.calls = <<>>,
                           !.handled = @ \cup SeqToSet(me.calls),
                           !.woken = Append(@, parent)])
  /\ UNCHANGED <<out, scn, innerByteStore, spawnCountStore, cl, execs, nsched, nset, late, eng>>

\* withPendingReturnsRemove: store.compareAndDelete against the bytes read
RemoveDelete(w) ==
  /\ At(w, "rm_del")
  /\ LET me == Me(w)
         pk == MemKey("pending_returns", me.msg[2])
         r == CompareAndDelete(innerByteStore, pk, me.expected)
     IN  /\ innerByteStore' = r.store
         /\ Set(w, IF r.ok THEN TurnDone ELSE Retry(w, "rm_get"))
  /\ UNCHANGED <<woke, out, scn, spawnCountStore, messages, cl, execs, enq, nsched, nset, late, eng>>

----------------------------------------------------------------------------
(* handleMessage on Defer: scheduleCallNested for each deferred call *)

Child(w) == Me(w).calls[Me(w).idx]

\* The end of one scheduleCallNested: the next deferred call, or the turn ends
ChildDone(w) ==
  IF Me(w).idx < Len(Me(w).calls)
  THEN [Me(w) EXCEPT !.pc = "set_call", !.idx = @ + 1, !.existing = NoPending,
                     !.expected = <<>>, !.again = FALSE, !.attempt = 0]
  ELSE TurnDone

\* Mutant: the child's call record is not persisted
SetCallSkipped(w) ==
  /\ At(w, "set_call")
  /\ Set(w, [Me(w) EXCEPT !.pc = "ap_get", !.attempt = 0])
  /\ UNCHANGED <<woke, out, scn, innerByteStore, spawnCountStore, messages, cl,
                 execs, enq, nsched, nset, late, eng>>

\* scheduleCallNested: memory.setCall(child)
SetCall(w) ==
  /\ At(w, "set_call")
  /\ innerByteStore' = Put(innerByteStore, MemKey("call", Child(w)),
                           CallPayload(Child(w)))
  /\ Set(w, [Me(w) EXCEPT !.pc = "ap_get", !.attempt = 0])
  /\ UNCHANGED <<woke, out, scn, spawnCountStore, messages, cl, execs, enq, nsched, nset, late, eng>>

\* addPendingReturn: store.get of the child's waiter record; a record found
\* gets the parent added, none found makes a new one
AddGet(w) ==
  /\ At(w, "ap_get")
  /\ LET me == Me(w)
         pk == MemKey("pending_returns", Child(w))
         newReturn == me.msg
     IN  IF Has(innerByteStore, pk)
         THEN LET enc == innerByteStore[pk]
                  old == PrDecode(enc)
                  add == newReturn \notin old.returns
                  ex == PendingReturns(old.scheduledAt, old.returns \cup {newReturn})
              IN  IF ShouldSchedule(ex)
                  THEN Set(w, [me EXCEPT !.pc = "ap_incr", !.existing = ex,
                                         !.expected = enc, !.again = add])
                  ELSE IF add
                  THEN Set(w, [me EXCEPT !.pc = "ap_cas", !.existing = ex,
                                         !.expected = enc, !.again = TRUE])
                  ELSE Set(w, ChildDone(w))
         ELSE LET ex == NewPendingReturns(newReturn)
              IN  Set(w, [me EXCEPT !.pc = "ap_new", !.existing = ex,
                                    !.expected = PrEncode(ex), !.again = FALSE])
  /\ late' = IF ~Has(innerByteStore, MemKey("pending_returns", Child(w)))
                 /\ Has(innerByteStore, MemKey("value", Child(w)))
              THEN late \cup {Me(w).msg} ELSE late
  /\ UNCHANGED <<woke, out, scn, innerByteStore, spawnCountStore, messages, cl,
                 execs, enq, nsched, nset, eng>>

\* Mutant: a new record for a child that is already complete is not scheduled
AddNewNoReschedule(w) ==
  /\ At(w, "ap_new")
  /\ LET me == Me(w)
         pk == MemKey("pending_returns", Child(w))
         r == SetNewValue(innerByteStore, pk, me.expected)
     IN  /\ innerByteStore' = r.store
         /\ IF ~r.ok THEN Set(w, Retry(w, "ap_get"))
            ELSE IF ShouldSchedule(me.existing)
                    /\ ~Has(innerByteStore, MemKey("value", Child(w)))
            THEN Set(w, [me EXCEPT !.pc = "ap_incr"])
            ELSE Set(w, ChildDone(w))
  /\ UNCHANGED <<woke, out, scn, spawnCountStore, messages, cl, execs, enq, nsched, nset, late, eng>>

\* addPendingReturn: store.setNewValue of the new record
AddNew(w) ==
  /\ At(w, "ap_new")
  /\ LET me == Me(w)
         pk == MemKey("pending_returns", Child(w))
         r == SetNewValue(innerByteStore, pk, me.expected)
     IN  /\ innerByteStore' = r.store
         /\ IF ~r.ok THEN Set(w, Retry(w, "ap_get"))
            ELSE IF ShouldSchedule(me.existing)
            THEN Set(w, [me EXCEPT !.pc = "ap_incr"])
            ELSE Set(w, ChildDone(w))
  /\ UNCHANGED <<woke, out, scn, spawnCountStore, messages, cl, execs, enq, nsched, nset, late, eng>>

\* scheduleJob -> putJob(child.memoKey, rootId): cache.incr
AddIncr(w) ==
  /\ At(w, "ap_incr")
  /\ LET me == Me(w)
         rootId == me.msg[1]
     IN  /\ spawnCountStore' = Incr(spawnCountStore, rootId)
         /\ IF SpawnLimitExceeded(spawnCountStore'[rootId])
            THEN Set(w, Die(w, "SpawnLimit"))
            ELSE Set(w, [me EXCEPT !.pc = "ap_put"])
  /\ UNCHANGED <<woke, out, scn, innerByteStore, messages, cl, execs, enq, nsched, nset, late, eng>>

\* putJob: queue.putMessage of the child; then scheduledAt = now
AddPut(w) ==
  /\ At(w, "ap_put")
  /\ LET me == Me(w)
     IN  /\ messages' = Append(messages, CallId(me.msg[1], Child(w)))
         /\ enq' = Bump(enq, me.msg[1])
         /\ nsched' = Bump(nsched, CallId(me.msg[1], Child(w)))
         /\ \E t \in Times :
              Set(w, [me EXCEPT !.pc = "ap_cas", !.again = TRUE,
                        !.existing = PendingReturns(t, me.existing.returns)])
  /\ UNCHANGED <<woke, out, scn, innerByteStore, spawnCountStore, cl, execs, nset, late, eng>>

\* addPendingReturn: store.compareAndSet(new encoding, bytes read)
AddCas(w) ==
  /\ At(w, "ap_cas")
  /\ LET me == Me(w)
         pk == MemKey("pending_returns", Child(w))
         r == CompareAndSet(innerByteStore, pk, PrEncode(me.existing), me.expected)
     IN  /\ innerByteStore' = r.store
         /\ Set(w, IF r.ok THEN ChildDone(w) ELSE Retry(w, "ap_get"))
  /\ UNCHANGED <<woke, out, scn, spawnCountStore, messages, cl, execs, enq, nsched, nset, late, eng>>

----------------------------------------------------------------------------

WorkerStep(w) ==
  \/ PollEmpty(w) \/ Poll(w) \/ Invoke(w) \/ StoreValue(w)
  \/ RemoveGet(w) \/ RemoveIncr(w) \/ RemovePut(w) \/ RemoveDelete(w)
  \/ SetCall(w) \/ AddGet(w) \/ AddNew(w) \/ AddIncr(w) \/ AddPut(w) \/ AddCas(w)

Next ==
  \/ ScheduleHasCall \/ ScheduleSetCall \/ ScheduleIncr \/ SchedulePut
  \/ \E w \in Workers : PollEmpty(w)
  \/ \E w \in Workers : Poll(w)
  \/ \E w \in Workers : Invoke(w)
  \/ \E w \in Workers : StoreValue(w)
  \/ \E w \in Workers : RemoveGet(w)
  \/ \E w \in Workers : RemoveIncr(w)
  \/ \E w \in Workers : RemovePut(w)
  \/ \E w \in Workers : RemoveDelete(w)
  \/ \E w \in Workers : SetCall(w)
  \/ \E w \in Workers : AddGet(w)
  \/ \E w \in Workers : AddNew(w)
  \/ \E w \in Workers : AddIncr(w)
  \/ \E w \in Workers : AddPut(w)
  \/ \E w \in Workers : AddCas(w)

Spec == Init /\ [][Next]_vars

\* Every running worker keeps taking turns, and the client finishes its
\* schedule calls.
Fairness ==
  /\ WF_vars(ScheduleHasCall \/ ScheduleSetCall \/ ScheduleIncr \/ SchedulePut)
  /\ \A w \in Workers : WF_vars(WorkerStep(w))

FairSpec == Spec /\ Fairness

----------------------------------------------------------------------------
(* The life of a worker: Brrr.wrrrk, the Wrrrker singleton, a closed       *)
(* queue, a crashed process, the operator clearing the spawn counters      *)

\* Workflows run by one worker process whose life is followed: those of the
\* suites, a body that throws ('Wrrrk recoverable'), a name that is not
\* registered, and a chain that runs out of budget on its way back up.
LifeScenarios ==
  { sc \in Scenarios : sc.nw = 1 /\ sc.name \in {"depth", "chain"} }
  \cup
  { [name |-> "faulty", roots |-> << <<"boom", 1>>, <<"foo", 1>> >>, nw |-> 1],
    [name |-> "ghost",  roots |-> << <<"ghost", 0>>, <<"foo", 1>> >>, nw |-> 1],
    [name |-> "climb",  roots |-> << <<"foo", (SPAWN_LIMIT + 1) \div 2>> >>, nw |-> 1] }

LifeInit ==
  /\ scn \in LifeScenarios
  /\ innerByteStore = EmptyMap
  /\ spawnCountStore = EmptyMap
  /\ messages = <<>>
  /\ cl = [pc |-> "has_call", idx |-> 1, rootId |-> 0]
  /\ wk = [w \in Workers |-> Local0]
  /\ execs = EmptyMap
  /\ enq = EmptyMap
  /\ nsched = EmptyMap
  /\ nset = EmptyMap
  /\ late = {}
  /\ eng = Eng0(scn.nw)
  /\ out = <<>>
  /\ woke = {}

\* Mutant: the constructor does not look at the singleton
WrrrkUnchecked(w) ==
  /\ w <= scn.nw
  /\ eng.wrrrks[w] < MaxWrrrk
  /\ eng' = [eng EXCEPT !.singleton[w] = TRUE, !.alive[w] = @ + 1,
                        !.wrrrks[w] = @ + 1]
  /\ Set(w, Local0)
  /\ UNCHANGED <<woke, out, scn, innerByteStore, spawnCountStore, messages, cl,
                 execs, enq, nsched, nset, late>>

\* Brrr.wrrrk: new Wrrrker(this) raises WorkerAlreadyRunning when the engine
\* has a worker, else registers itself and enters loop().  eng.rejected
\* remembers that a call was refused; further refused calls change nothing.
Wrrrk(w) ==
  /\ w <= scn.nw
  /\ IF eng.singleton[w]
     THEN /\ ~eng.rejected[w]
          /\ eng' = [eng EXCEPT !.rejected[w] = TRUE]
          /\ UNCHANGED wk
     ELSE /\ eng.wrrrks[w] < MaxWrrrk
          /\ eng' = [eng EXCEPT !.singleton[w] = TRUE, !.alive[w] = @ + 1,
                                !.wrrrks[w] = @ + 1]
          /\ Set(w, Local0)
  /\ UNCHANGED <<woke, out, scn, innerByteStore, spawnCountStore, messages, cl,
                 execs, enq, nsched, nset, late>>

\* wrrrk() returns or throws: `await using` disposes the worker
Dispose(w) ==
  /\ w <= scn.nw
  /\ wk[w].pc \in {"dead", "returned"}
  /\ eng.singleton[w]
  /\ eng' = [eng EXCEPT !.singleton[w] = FALSE, !.alive[w] = @ - 1]
  /\ UNCHANGED <<woke, out, scn, innerByteStore, spawnCountStore, messages, cl, wk,
                 execs, enq, nsched, nset, late>>

\* Mutant: QueueIsClosed is rethrown
LoopClosedThrows(w) ==
  /\ At(w, "poll")
  /\ eng.closed
  /\ Set(w, Die(w, "QueueIsClosed"))
  /\ UNCHANGED <<woke, out, scn, innerByteStore, spawnCountStore, messages, cl,
                 execs, enq, nsched, nset, late, eng>>

\* loop: getMessage on a closed queue raises QueueIsClosed; return
LoopClosed(w) ==
  /\ At(w, "poll")
  /\ eng.closed
  /\ Set(w, [Local0 EXCEPT !.pc = "returned"])
  /\ UNCHANGED <<woke, out, scn, innerByteStore, spawnCountStore, messages, cl,
                 execs, enq, nsched, nset, late, eng>>

\* Queue.close, by the program around the engine
Close ==
  /\ ~eng.closed
  /\ eng' = [eng EXCEPT !.closed = TRUE]
  /\ UNCHANGED <<woke, out, scn, innerByteStore, spawnCountStore, messages, cl, wk,
                 execs, enq, nsched, nset, late>>

\* The worker's process dies in the middle of a turn (injected in the chain
\* workflow)
Crash(w) ==
  /\ w <= scn.nw
  /\ scn.name = "chain"
  /\ wk[w].pc \notin {"poll", "dead", "returned"}
  /\ eng.crashes < MaxCrashes
  /\ Set(w, Die(w, "Crash"))
  /\ eng' = [eng EXCEPT !.crashes = @ + 1]
  /\ UNCHANGED <<woke, out, scn, innerByteStore, spawnCountStore, messages, cl,
                 execs, enq, nsched, nset, late>>

\* The operator clears the spawn counters after a SpawnLimit, before
\* running wrrrk() again (cache.spawnCountStore.clear())
ClearCounters ==
  /\ \E w \in Workers : wk[w].pc = "dead" /\ wk[w].err = "SpawnLimit"
  /\ spawnCountStore # EmptyMap
  /\ spawnCountStore' = EmptyMap
  /\ UNCHANGED <<woke, out, scn, innerByteStore, messages, cl, wk,
                 execs, enq, nsched, nset, late, eng>>

LifeNext ==
  \/ Next
  \/ \E w \in Workers : Wrrrk(w)
  \/ \E w \in Workers : Dispose(w)
  \/ \E w \in Workers : LoopClosed(w)
  \/ \E w \in Workers : Crash(w)
  \/ Close
  \/ ClearCounters

LifeSpec == LifeInit /\ [][LifeNext]_vars

\* As Fairness, and a returned or failed wrrrk() is eventually followed by
\* another; the counters are cleared after a SpawnLimit.  Nothing makes the
\* queue close or a process crash.
LifeFairness ==
  /\ Fairness
  /\ \A w \in Workers :
       /\ WF_vars(LoopClosed(w))
       /\ WF_vars(Dispose(w))
       /\ WF_vars(~eng.singleton[w] /\ Wrrrk(w))
  /\ WF_vars(ClearCounters)

FairLifeSpec == LifeSpec /\ LifeFairness

----------------------------------------------------------------------------
(* Vocabulary of the properties *)

HasValue(k) == Has(innerByteStore, MemKey("value", k))

ValueOf(k) == DecodeReturn(innerByteStore[MemKey("value", k)])

HasPending(k) == Has(innerByteStore, MemKey("pending_returns", k))

PendingOf(k) == PrDecode(innerByteStore[MemKey("pending_returns", k)])

\* schedule has returned for the i-th root of the client program
Scheduled(i) == i <= Len(scn.roots) /\ cl.idx > i

RootStored(i) == i <= Len(scn.roots) /\ HasValue(scn.roots[i])

\* Some worker's loop() was left by an error
WorkerCrashed == \E w \in Workers : wk[w].pc = "dead"

Crashed(w, e) == wk[w].pc = "dead" /\ wk[w].err = e

ClientDone == cl.idx > Len(scn.roots)

\* Nothing queued and every worker at the top of its loop (or terminated)
Quiescent ==
  /\ ClientDone
  /\ messages = <<>>
  /\ \A w \in Workers : wk[w].pc \in {"poll", "dead"}

----------------------------------------------------------------------------
(* C1: a scheduled workflow of the test suites' shapes (chain, fan-out,    *)
(* shared child), whose task bodies never throw, with one or two workers   *)
(* taking turns fairly and the queue never closed: the root's value is     *)
(* eventually stored, unless a worker was terminated by an error           *)
(* (SpawnLimit: the enqueues did not stay within the limit).               *)
C1_RootValueEventuallyStored ==
  \A i \in 1..2 : Scheduled(i) ~> (RootStored(i) \/ WorkerCrashed)

\* Two workers, two roots sharing a child: both root values stored, no error
C1_Witness ==
  /\ scn.nw = 2
  /\ scn.name = "shared"
  /\ RootStored(1) /\ RootStored(2)
  /\ ~WorkerCrashed

----------------------------------------------------------------------------
(* C2: the late waiter.  A parent message m whose worker found value[c]    *)
(* absent (Defer) and reaches addPendingReturn(c, m) only after c's value  *)
(* was stored and c's waiter record deleted (m is in `late`) still gets    *)
(* the parent's value stored: the fresh record re-enqueues c, whose next   *)
(* run wakes the parent, which then finds value[c].  (Unless a worker was  *)
(* terminated by SpawnLimit.)  A late waiter stays in `late` and a stored  *)
(* value stays stored, so that "each late waiter's value is eventually     *)
(* stored" is "from some point on every late waiter's value is stored".    *)
ParentMsgs ==
  {<<r, p>> : r \in 1..2,
              p \in {<<"mid", 1>>, <<"mid", 2>>, <<"foo", 1>>, <<"foo", 2>>,
                     <<"fan", (SPAWN_LIMIT - 1) \div 2>>}}

C2_LateWaiterNotStranded ==
  /\ [](late \subseteq ParentMsgs)
  /\ [][ /\ late \subseteq late'
         /\ \A m \in late : HasValue(m[2]) =>
              Has(innerByteStore', MemKey("value", m[2])) ]_vars
  /\ <>[](\A m \in late : HasValue(m[2]) \/ WorkerCrashed)

\* A late waiter of the shared child whose parent completed: the child ran
\* twice and the parent ran again with the child's value present
C2_Witness ==
  /\ scn.name = "shared"
  /\ ~WorkerCrashed
  /\ \E m \in late :
       /\ HasValue(m[2])
       /\ Cnt(execs, m[2]) >= 2
       /\ Cnt(execs, <<"tick", 0>>) >= 2

----------------------------------------------------------------------------
(* C3: a stored value is never overwritten or deleted: every step leaves   *)
(* each value entry as it is, and a setValue on a key that already has a   *)
(* value reports KeyAlreadyExists and changes nothing in the store.        *)
C3_ValueWriteOnce ==
  [][ /\ \A mk \in DOMAIN innerByteStore :
           mk[1] = "value" =>
             /\ mk \in DOMAIN innerByteStore'
             /\ innerByteStore'[mk] = innerByteStore[mk]
      /\ \A w \in Workers :
           (wk[w].pc = "set_value" /\ wk'[w].pc # "set_value"
              /\ HasValue(wk[w].msg[2]))
           => (wk'[w].kae /\ innerByteStore' = innerByteStore)
    ]_vars

\* A worker's setValue with bytes other than the stored ones was refused
C3_Witness ==
  \E w \in Workers :
    /\ wk[w].kae
    /\ HasValue(wk[w].msg[2])
    /\ wk[w].ret # innerByteStore[MemKey("value", wk[w].msg[2])]

----------------------------------------------------------------------------
(* C4: two workers running the same memoKey.  After every setValue step    *)
(* the worker goes on to withPendingReturnsRemove (it is not terminated),  *)
(* exactly one setValue on the key has succeeded, and the step was a       *)
(* swallowed KeyAlreadyExists exactly when the value was already there.    *)
C4_DuplicateRunSwallowed ==
  [][ \A w \in Workers :
        (wk[w].pc = "set_value" /\ wk'[w].pc # "set_value")
        => /\ wk'[w].pc = "rm_get"
           /\ HasValue(wk[w].msg[2])'
           /\ Cnt(nset', wk[w].msg[2]) = 1
           /\ wk'[w].kae <=> HasValue(wk[w].msg[2])
    ]_vars

RemovePcs == {"rm_get", "rm_incr", "rm_put", "rm_del"}

\* Both workers are in a turn on the same memoKey, both bodies have run, one
\* stored the value and the other's KeyAlreadyExists was swallowed
C4_Witness ==
  /\ wk[1].msg[2] = wk[2].msg[2]
  /\ wk[1].pc \in RemovePcs /\ wk[2].pc \in RemovePcs
  /\ wk[1].kae # wk[2].kae
  /\ Cnt(execs, wk[1].msg[2]) >= 2
  /\ Cnt(nset, wk[1].msg[2]) = 1

----------------------------------------------------------------------------
\* rootIds handed out by the client
RootIds == 1..2

\* Child memo keys that parents wait for
ChildKeys ==
  {mk[2] : mk \in {x \in DOMAIN innerByteStore : x[1] = "pending_returns"}}

\* scheduleJob enqueues of child c, over all roots
NschedTotal(c) == Cnt(nsched, CallId(1, c)) + Cnt(nsched, CallId(2, c))

\* putJob calls for root r between cache.incr and queue.putMessage
InPutJob(r) ==
  Cardinality({w \in Workers :
                 \/ wk[w].pc = "ap_put" /\ wk[w].msg[1] = r
                 \/ wk[w].pc = "rm_put" /\ wk[w].calls[wk[w].idx][1] = r})
  + (IF cl.pc = "put" /\ cl.rootId = r THEN 1 ELSE 0)

\* putJob calls that raised SpawnLimit
NumSpawnLimit ==
  Cardinality({w \in Workers : Crashed(w, "SpawnLimit")})
  + (IF cl.pc = "failed" THEN 1 ELSE 0)

Min(a, b) == IF a < b THEN a ELSE b

RECURSIVE ExecsUpTo(_, _)
\* Body executions of task t with arguments 0..a
ExecsUpTo(t, a) ==
  IF a < 0 THEN 0 ELSE Cnt(execs, MemoKey(t, a)) + ExecsUpTo(t, a - 1)

----------------------------------------------------------------------------
(* C5 as stated: once pending_returns[c].scheduledAt is set, exactly one   *)
(* message for c has been enqueued per root: at least one, and for no root *)
(* a second one.                                                           *)
C5_ExactlyOneMessage ==
  \A c \in ChildKeys :
    PendingOf(c).scheduledAt # 0 =>
      /\ NschedTotal(c) >= 1
      /\ \A r \in RootIds : Cnt(nsched, CallId(r, c)) <= 1

(* C5 amended: once pending_returns[c].scheduledAt is set, at least one    *)
(* message for c has been enqueued; with a single worker exactly one has.  *)
C5_ScheduledAtLeastOnce ==
  \A c \in ChildKeys :
    PendingOf(c).scheduledAt # 0 =>
      /\ NschedTotal(c) >= 1
      /\ scn.nw = 1 => NschedTotal(c) = 1

\* A single worker has gone through scheduleCallNested for the same child a
\* second time, the flag is set and the child was enqueued once
C5_Witness ==
  /\ scn.nw = 1
  /\ wk[1].pc = "set_call" /\ wk[1].idx >= 3
  /\ wk[1].calls[1] = wk[1].calls[2]
  /\ HasPending(wk[1].calls[1])
  /\ PendingOf(wk[1].calls[1]).scheduledAt # 0
  /\ NschedTotal(wk[1].calls[1]) = 1

----------------------------------------------------------------------------
(* C6 as stated: whenever no putJob is between its increment and its       *)
(* enqueue, count/<rootId> equals the number of messages enqueued for the  *)
(* root.                                                                   *)
C6_CountEqualsEnqueued ==
  \A r \in RootIds :
    InPutJob(r) = 0 => Cnt(spawnCountStore, r) = Cnt(enq, r)

(* C6 amended: count/<rootId> counts the putJob calls that incremented it, *)
(* those that raised SpawnLimit included: the messages enqueued for the    *)
(* root plus the putJob calls between incr and putMessage are              *)
(* min(count, SPAWN_LIMIT); every step leaves the counter or adds one.     *)
C6_CountIsIncrements ==
  [][ \A r \in RootIds :
        /\ Cnt(spawnCountStore', r) >= Cnt(spawnCountStore, r)
        /\ Cnt(spawnCountStore', r) <= Cnt(spawnCountStore, r) + 1
        /\ Cnt(enq', r) >= Cnt(enq, r)
        /\ Cnt(enq', r) + InPutJob(r)'
             = Min(Cnt(spawnCountStore', r), SPAWN_LIMIT)
    ]_vars

\* The counter has passed the number of messages enqueued
C6_Witness ==
  \E r \in RootIds :
    /\ InPutJob(r) = 0
    /\ Cnt(spawnCountStore, r) = SPAWN_LIMIT + 1
    /\ Cnt(enq, r) = SPAWN_LIMIT

----------------------------------------------------------------------------
(* C7: the k-th putJob of a root goes on to enqueue for k <= SPAWN_LIMIT,  *)
(* and raises SpawnLimit without enqueueing for k = SPAWN_LIMIT + 1; no    *)
(* root has more than SPAWN_LIMIT messages enqueued; a Defer with more     *)
(* distinct children than the budget left raises SpawnLimit in that turn   *)
(* (the parent is executed once, and the worker ends in SpawnLimit).       *)
C7_SpawnLimitEnforced ==
  [][ /\ \A r \in RootIds :
           /\ Cnt(enq', r) <= SPAWN_LIMIT
           /\ Cnt(spawnCountStore', r) # Cnt(spawnCountStore, r) =>
                /\ messages' = messages /\ enq' = enq
                /\ IF Cnt(spawnCountStore', r) <= SPAWN_LIMIT
                   THEN /\ NumSpawnLimit' = NumSpawnLimit
                        /\ InPutJob(r)' = InPutJob(r) + 1
                   ELSE /\ NumSpawnLimit' = NumSpawnLimit + 1
                        /\ InPutJob(r)' = InPutJob(r)
      /\ scn.name = "breadth" =>
           /\ Cnt(execs', scn.roots[1]) <= 1
           /\ Cnt(execs', scn.roots[1]) = 1 =>
                /\ wk'[1].pc # "poll"
                /\ wk'[1].msg = CallId(1, scn.roots[1])
           /\ wk'[1].pc = "dead" => /\ wk'[1].err = "SpawnLimit"
                                    /\ Cnt(enq', 1) = SPAWN_LIMIT
    ]_vars

\* The fan-out parent's only turn ended in SpawnLimit after SPAWN_LIMIT
\* messages
C7_Witness ==
  /\ scn.name = "breadth"
  /\ Crashed(1, "SpawnLimit")
  /\ wk[1].msg = CallId(1, scn.roots[1])
  /\ Len(TaskKids(scn.roots[1])) > SPAWN_LIMIT - 1
  /\ Cnt(execs, scn.roots[1]) = 1
  /\ Cnt(enq, 1) = SPAWN_LIMIT
  /\ Cnt(spawnCountStore, 1) = SPAWN_LIMIT + 1

----------------------------------------------------------------------------
(* C8: a single worker on the chain foo(SPAWN_LIMIT + 3): at most          *)
(* SPAWN_LIMIT bodies are executed, the worker terminates only with        *)
(* SpawnLimit and then exactly SPAWN_LIMIT bodies were executed, and it    *)
(* never comes to rest without having terminated.                          *)
C8_ChainStopsAtLimit ==
  scn.name = "depth" =>
    LET n == scn.roots[1][2]
    IN  /\ ExecsUpTo("foo", n) <= SPAWN_LIMIT
        /\ \A w \in Workers :
             wk[w].pc = "dead" =>
               wk[w].err = "SpawnLimit" /\ ExecsUpTo("foo", n) = SPAWN_LIMIT
        /\ Quiescent => Crashed(1, "SpawnLimit")
        /\ ~HasValue(scn.roots[1])

C8_Witness ==
  /\ scn.name = "depth" /\ Quiescent
  /\ Crashed(1, "SpawnLimit")
  /\ ExecsUpTo("foo", scn.roots[1][2]) = SPAWN_LIMIT

----------------------------------------------------------------------------
(* C9: a parent whose Defer lists the same child N > SPAWN_LIMIT times,    *)
(* one worker: the child is enqueued once, the counter is incremented once *)
(* for it (root, child, wake-up: three in all), no SpawnLimit is raised,   *)
(* and at rest the child's body has run once and the parent's twice.       *)
C9_DuplicateChildrenOnce ==
  scn.name = "cached" =>
    LET p == scn.roots[1]
        c == TaskKids(p)[1]
    IN  /\ Cnt(nsched, CallId(1, c)) <= 1
        /\ Cnt(spawnCountStore, 1) <= 3
        /\ ~WorkerCrashed /\ cl.pc # "failed"
        /\ Cnt(execs, c) <= 1 /\ Cnt(execs, p) <= 2
        /\ Quiescent =>
             /\ Cnt(execs, c) = 1 /\ Cnt(execs, p) = 2
             /\ Cnt(nsched, CallId(1, c)) = 1
             /\ Cnt(spawnCountStore, 1) = 3
             /\ HasValue(p) /\ ValueOf(p) = Len(TaskKids(p)) * ValueOf(c)

C9_Witness ==
  /\ scn.name = "cached" /\ Quiescent
  /\ Len(TaskKids(scn.roots[1])) > SPAWN_LIMIT
  /\ Cnt(execs, scn.roots[1]) = 2
  /\ Cnt(execs, TaskKids(scn.roots[1])[1]) = 1

----------------------------------------------------------------------------
\* The gather scenario with one worker has come to rest with every child
\* run once, the parent run n + 1 times and the parent's value the
\* combination (sum of 2^i) of the n results
GatherDone ==
  LET p == scn.roots[1]
      n == p[2]
  IN  /\ Quiescent /\ ~WorkerCrashed
      /\ \A i \in 0..(n - 1) : Cnt(execs, MemoKey("one", i)) = 1
      /\ Cnt(execs, p) = n + 1
      /\ HasValue(p) /\ ValueOf(p) = 2 ^ n - 1

(* C10: one worker, a parent gathering n distinct leaves: no child is run  *)
(* more than once nor the parent more than n + 1 times, and the run comes  *)
(* to rest with each child run once, the parent run n + 1 times and its    *)
(* stored value combining all n results.                                   *)
C10_GatherRunsEachOnce ==
  /\ [](scn.name = "gather" /\ scn.nw = 1 =>
          /\ \A i \in 0..(scn.roots[1][2] - 1) :
               Cnt(execs, MemoKey("one", i)) <= 1
          /\ Cnt(execs, scn.roots[1]) <= scn.roots[1][2] + 1
          /\ Quiescent => GatherDone)
  /\ (scn.name = "gather" /\ scn.nw = 1) ~> GatherDone

C10_Witness ==
  /\ scn.name = "gather" /\ scn.nw = 1 /\ scn.roots[1][2] >= 2
  /\ GatherDone

----------------------------------------------------------------------------
\* Memo keys whose body has run and invokes child calls
ParentsRun == {p \in DOMAIN execs : TaskKids(p) # <<>>}

\* The number n of distinct children of p
DistinctKids(p) == Cardinality(SeqToSet(TaskKids(p)))

(* C11 as stated: for any number of workers, the body of a parent with n   *)
(* distinct children is executed at most n + 1 times.                      *)
C11_AtMostNPlusOne ==
  \A p \in ParentsRun : execs[p] <= DistinctKids(p) + 1

(* C11 amended: with a single worker (and one root), the body of a parent  *)
(* with n distinct children is executed at most n + 1 times.               *)
C11_SingleWorkerAtMostNPlusOne ==
  scn.nw = 1 => \A p \in ParentsRun : execs[p] <= DistinctKids(p) + 1

\* A single worker has run a parent of two or more children n + 1 times
C11_Witness ==
  /\ scn.nw = 1
  /\ \E p \in ParentsRun :
       DistinctKids(p) >= 2 /\ execs[p] = DistinctKids(p) + 1

----------------------------------------------------------------------------
\* The chain foo(n) .. foo(0) has come to rest: foo(0) was run once, every
\* other link twice, and each link's value was stored once
ChainDone ==
  LET n == scn.roots[1][2]
  IN  /\ Quiescent /\ ~WorkerCrashed
      /\ Cnt(execs, MemoKey("foo", 0)) = 1
      /\ \A k \in 1..n : /\ Cnt(execs, MemoKey("foo", k)) = 2
                         /\ Cnt(nset, MemoKey("foo", k)) = 1
      /\ RootStored(1)

(* C12: one worker on the chain foo(n) .. foo(0): foo(0) is never run more *)
(* than once nor any other link more than twice; a link foo(k), k >= 1,    *)
(* gets past its child invoke only in its second execution and before its  *)
(* value is stored (so exactly once); and the run comes to rest with       *)
(* foo(0) run once and every other link run twice.                         *)
C12_ChainRunsTwice ==
  /\ [](scn.name = "chain" /\ scn.nw = 1 =>
          /\ Cnt(execs, MemoKey("foo", 0)) <= 1
          /\ \A k \in 1..scn.roots[1][2] : Cnt(execs, MemoKey("foo", k)) <= 2
          /\ (wk[1].pc = "set_value" /\ wk[1].call[2] >= 1) =>
               /\ Cnt(execs, wk[1].call) = 2
               /\ ~HasValue(wk[1].call)
          /\ Quiescent => ChainDone)
  /\ (scn.name = "chain" /\ scn.nw = 1) ~> ChainDone

C12_Witness ==
  /\ scn.name = "chain" /\ scn.nw = 1 /\ scn.roots[1][2] >= 2
  /\ ChainDone

----------------------------------------------------------------------------
RECURSIVE Refs(_)
\* The memo keys a workflow refers to: the call and its descendants
Refs(c) == {c} \cup UNION {Refs(k) : k \in SeqToSet(TaskKids(c))}

\* Every root's value is stored, the queue is drained and every worker is at
\* the top of its loop
Completed ==
  /\ ClientDone
  /\ messages = <<>>
  /\ \A w \in Workers : wk[w].pc = "poll"
  /\ \A i \in 1..Len(scn.roots) : RootStored(i)

(* C13: when a workflow has completed (root value stored, queue drained,   *)
(* no worker in a turn), every memo key it refers to has its call entry    *)
(* and its value entry, and none has a pending_returns entry.              *)
C13_CompletedStoreShape ==
  Completed =>
    \A i \in 1..Len(scn.roots) : \A k \in Refs(scn.roots[i]) :
      /\ Has(innerByteStore, MemKey("call", k))
      /\ HasValue(k)
      /\ ~HasPending(k)

\* A workflow of two workers with a shared child has completed after a child
\* was run a second time
C13_Witness ==
  /\ Completed /\ scn.nw = 2
  /\ \E k \in DOMAIN execs : TaskKids(k) = <<>> /\ execs[k] >= 2

----------------------------------------------------------------------------
(* C14 as stated: on the chain foo(2) with one worker, whose only fault is *)
(* one process crash in the middle of a turn, a fresh worker on the same   *)
(* store and queue suffices: once the root is scheduled its value is       *)
(* eventually stored (unless the queue gets closed).                       *)
C14_FreshWorkerResumes ==
  (scn.name = "chain" /\ Scheduled(1)) ~> (RootStored(1) \/ eng.closed)

----------------------------------------------------------------------------
(* C15 as stated: on the chain foo(SPAWN_LIMIT + 3) with one worker, after *)
(* the worker terminated with SpawnLimit, clearing the spawn counters and  *)
(* running wrrrk() again, without another schedule, eventually stores the  *)
(* root value (unless the queue gets closed, a process crashed, or the     *)
(* counters are not clear).                                                *)
C15_RerunCompletes ==
  (scn.name = "depth" /\ Scheduled(1))
    ~> (RootStored(1) \/ eng.closed \/ eng.crashes > 0
          \/ spawnCountStore # EmptyMap)

----------------------------------------------------------------------------
\* The errors of a turn that leave loop()
FatalErrors ==
  {"UserError", "TaskNotFound", "SpawnLimit", "CasRetryLimit", "ValueNotFound"}

\* Worker w leaves its loop with one of these errors in this step
Fails(w) ==
  wk[w].pc # "dead" /\ wk'[w].pc = "dead" /\ wk'[w].err \in FatalErrors

\* The value of k is stored after this step
StoredNext(k) == Has(innerByteStore', MemKey("value", k))

\* The calls whose execution raises, and the parent that waits for one
RaisingCalls == {<<"boom", 0>>, <<"boom", 1>>, <<"ghost", 0>>}

(* C16 as stated: when a worker is terminated by an error of its turn, no  *)
(* value is stored for the call it was executing.                          *)
C16_NoValueOnError ==
  [][ \A w \in Workers : Fails(w) => ~StoredNext(wk'[w].msg[2]) ]_vars

(* C16 amended: an error of the turn terminates the worker (a run that     *)
(* executed a throwing body or met an unregistered name has ended); the    *)
(* failing step writes nothing to the store; no value is ever stored for a *)
(* call whose execution raised; an error raised before setValue leaves the *)
(* executed call without value, while SpawnLimit or CasRetryLimit raised   *)
(* in withPendingReturnsRemove comes after the value was stored; and a     *)
(* later wrrrk() on the engine processes a newly scheduled workflow.       *)
C16_ErrorsTerminateWorker ==
  /\ [][ \A w \in Workers : Fails(w) =>
           /\ innerByteStore' = innerByteStore
           /\ IF wk[w].pc \in RemovePcs
              THEN /\ StoredNext(wk'[w].msg[2])
                   /\ wk'[w].err \in {"SpawnLimit", "CasRetryLimit"}
              ELSE ~StoredNext(wk'[w].msg[2])
       ]_vars
  /\ [](\A k \in RaisingCalls : ~HasValue(k))
  /\ [](Cnt(execs, <<"boom", 0>>) >= 1 =>
          wk[1].pc = "dead" \/ eng.wrrrks[1] >= 2)
  /\ [](scn.name = "ghost" /\ Quiescent /\ wk[1].pc = "poll" =>
          eng.wrrrks[1] >= 2)
  /\ (scn.name \in {"faulty", "ghost"} /\ Scheduled(2))
       ~> (RootStored(2) \/ eng.closed \/ eng.crashes > 0)

\* The worker was terminated by the error of a task body, wrrrk() was
\* called again and the second workflow was processed
C16_Witness ==
  /\ scn.name = "faulty"
  /\ eng.wrrrks[1] >= 2 /\ eng.crashes = 0 /\ ~eng.closed
  /\ Cnt(execs, <<"boom", 0>>) = 1 /\ ~HasValue(<<"boom", 0>>)
  /\ RootStored(2) /\ Quiescent

----------------------------------------------------------------------------
(* C17: an engine has at most one live Wrrrker, and has one exactly when   *)
(* its singleton is set; a wrrrk() call while a worker is alive raises     *)
(* WorkerAlreadyRunning and changes neither the singleton nor the worker;  *)
(* a worker is started only when the singleton is free; the singleton is   *)
(* released only when wrrrk() has returned or thrown, and then it always   *)
(* is, so that a later wrrrk() starts.                                     *)
C17_WorkerSingleton ==
  /\ [](\A w \in Workers :
          /\ eng.alive[w] <= 1
          /\ eng.singleton[w] <=> eng.alive[w] = 1)
  /\ [][ \A w \in Workers :
           /\ eng'.rejected[w] # eng.rejected[w] =>
                /\ eng.singleton[w] /\ eng'.singleton[w]
                /\ eng'.alive = eng.alive
                /\ wk' = wk
           /\ eng'.wrrrks[w] # eng.wrrrks[w] =>
                /\ ~eng.singleton[w] /\ eng'.singleton[w]
                /\ wk'[w].pc = "poll"
           /\ (eng.singleton[w] /\ ~eng'.singleton[w]) =>
                wk[w].pc \in {"dead", "returned"}
       ]_vars
  /\ \A w \in Workers :
       (wk[w].pc \in {"dead", "returned"}) ~> ~eng.singleton[w]

\* A wrrrk() call was refused while the worker was alive, and after that
\* worker ended another wrrrk() has started one
C17_Witness ==
  /\ eng.rejected[1]
  /\ eng.wrrrks[1] >= 2
  /\ eng.singleton[1] /\ eng.alive[1] = 1
  /\ wk[1].pc = "poll"

----------------------------------------------------------------------------
----------------------------------------------------------------------------
(* C20: a Task.invoke made by a body that a worker is executing changes    *)
(* neither the store, the queue, the spawn counters nor the number of      *)
(* executions of any call; when the child's value is stored the decoded    *)
(* value is what the body receives, and when it is not the invocation      *)
(* raises Defer for that call: awaited directly, the turn goes on with     *)
(* Defer([call]); under gather the call is among the deferred ones.        *)
C20_InvokeInWorker ==
  [][ \A w \in Workers :
        (wk[w].pc = "invoke" /\ wk'[w].pc # "dead" /\ wk'[w] # wk[w]) =>
          LET me == wk[w]
              kid == TaskKids(me.call)[me.idx]
              got == Append(me.acc, ValueOf(kid))
          IN  /\ innerByteStore' = innerByteStore
              /\ messages' = messages
              /\ spawnCountStore' = spawnCountStore
              /\ execs' = execs
              /\ IF HasValue(kid)
                 THEN \/ wk'[w].pc = "invoke" /\ wk'[w].acc = got
                                              /\ wk'[w].calls = me.calls
                      \/ /\ wk'[w].pc = "set_value" /\ me.calls = <<>>
                         /\ \E r \in TaskReturn(me.call, got) :
                              wk'[w].ret = EncodeJson(r)
                      \/ /\ wk'[w].pc = "set_call" /\ me.calls # <<>>
                         /\ wk'[w].calls = me.calls
                 ELSE IF TaskGather(me.call)
                 THEN /\ wk'[w].pc \in {"invoke", "set_call"}
                      /\ wk'[w].calls = Append(me.calls, kid)
                 ELSE /\ wk'[w].pc = "set_call"
                      /\ wk'[w].calls = <<kid>>
    ]_vars

\* foo(1), run a second time after its first run deferred on foo(0), has
\* read foo(0)'s stored value and is about to store it as its own result
C20_Witness ==
  /\ wk[1].pc = "set_value" /\ wk[1].call = <<"foo", 1>>
  /\ Cnt(execs, <<"foo", 1>>) = 2 /\ Cnt(execs, <<"foo", 0>>) = 1
  /\ HasValue(<<"foo", 0>>)
  /\ wk[1].ret = innerByteStore[MemKey("value", <<"foo", 0>>)]

----------------------------------------------------------------------------
(* Task.invoke and Task.map called by the client itself *)

\* Brrr.isWorkerContext of engine e
isWorkerContext(e) == eng.singleton[e]

\* An invocation not yet made: no body running, no result
Out0 == [st |-> "new", stack |-> <<>>, res |-> 0, err |-> ""]

\* A store whose value entries for triangular_sum differ from what the
\* function returns
StaleValues ==
  [k \in {MemKey("value", MemoKey("triangular_sum", a)) : a \in 0..MaxArg}
     |-> EncodeJson((k[2][2] * (k[2][2] + 1)) \div 2 + 1)]

\* invoke(a) is one invocation, map([a], [b], ...) one per argument list
DirectScenarios ==
  { [name |-> "direct", roots |-> r, nw |-> 0] :
      r \in UNION { [1..n -> {<<"triangular_sum", a>> : a \in 0..MaxArg}] :
                      n \in 1..MaxInvocations } }

\* The engine may or may not have been set up, its store may hold values for
\* the calls, and a worker may or may not be registered with it
DirectInit ==
  /\ scn \in DirectScenarios
  /\ \E setup \in BOOLEAN, inWorker \in BOOLEAN, cached \in BOOLEAN :
       /\ cached => setup
       /\ eng = [Eng0(0) EXCEPT !.setup = setup,
                                !.singleton[1] = inWorker,
                                !.alive[1] = IF inWorker THEN 1 ELSE 0]
       /\ innerByteStore = IF cached THEN StaleValues ELSE EmptyMap
  /\ spawnCountStore = EmptyMap
  /\ messages = <<>>
  /\ cl = [pc |-> "has_call", idx |-> 1, rootId |-> 0]
  /\ wk = [w \in Workers |-> Local0]
  /\ execs = EmptyMap
  /\ enq = EmptyMap
  /\ nsched = EmptyMap
  /\ nset = EmptyMap
  /\ late = {}
  /\ out = [i \in 1..Len(scn.roots) |-> Out0]
  /\ woke = {}

\* The call the i-th invocation makes next: the client's own, or the one the
\* body on top of the stack awaits
DirectCall(i) ==
  LET o == out[i]
  IN  IF o.st = "new" THEN scn.roots[i]
      ELSE LET top == o.stack[Len(o.stack)]
           IN  TaskKids(top.call)[Len(top.acc) + 1]

\* TRUE when the i-th invocation is about to call Task.invoke
DirectCalls(i) ==
  LET o == out[i]
  IN  \/ o.st = "new"
      \/ /\ o.st = "run"
         /\ LET top == o.stack[Len(o.stack)]
            IN  Len(top.acc) < Len(TaskKids(top.call))

\* Mutant: Task.invoke always takes the worker path
DirectInvokeAsWorker(i) ==
  /\ i \in DOMAIN out
  /\ DirectCalls(i)
  /\ LET o == out[i]
         call == DirectCall(i)
     IN  IF FALSE
         THEN /\ out' = [out EXCEPT ![i].st = "run",
                           ![i].stack = Append(@, [call |-> call, acc |-> <<>>])]
              /\ execs' = Bump(execs, call)
         ELSE /\ out' = [out EXCEPT ![i] =
                           IF ~eng.setup
                           THEN [o EXCEPT !.st = "err", !.err = "BrrrNotSetup"]
                           ELSE IF HasValue(call)
                           THEN [o EXCEPT !.st = "done", !.res = ValueOf(call)]
                           ELSE [o EXCEPT !.st = "err", !.err = "Defer"]]
              /\ UNCHANGED execs
  /\ UNCHANGED <<woke, scn, innerByteStore, spawnCountStore, messages, cl, wk,
                 enq, nsched, nset, late, eng>>

\* Task.invoke: outside a worker context `return this.fn(...args)`, the body
\* starts running; inside one, requiresSetup, then the stored value or Defer
DirectInvoke(i) ==
  /\ i \in DOMAIN out
  /\ DirectCalls(i)
  /\ LET o == out[i]
         call == DirectCall(i)
     IN  IF ~isWorkerContext(1)
         THEN /\ out' = [out EXCEPT ![i].st = "run",
                           ![i].stack = Append(@, [call |-> call, acc |-> <<>>])]
              /\ execs' = Bump(execs, call)
         ELSE /\ out' = [out EXCEPT ![i] =
                           IF ~eng.setup
                           THEN [o EXCEPT !.st = "err", !.err = "BrrrNotSetup"]
                           ELSE IF HasValue(call)
                           THEN [o EXCEPT !.st = "done", !.res = ValueOf(call)]
                           ELSE [o EXCEPT !.st = "err", !.err = "Defer"]]
              /\ UNCHANGED execs
  /\ UNCHANGED <<woke, scn, innerByteStore, spawnCountStore, messages, cl, wk,
                 enq, nsched, nset, late, eng>>

\* The body on top of the stack has every awaited result and returns: to the
\* body that awaits it, or to the client
DirectReturn(i) ==
  /\ i \in DOMAIN out
  /\ out[i].st = "run"
  /\ LET o == out[i]
         top == o.stack[Len(o.stack)]
         rest == SubSeq(o.stack, 1, Len(o.stack) - 1)
     IN  /\ Len(top.acc) = Len(TaskKids(top.call))
         /\ \E r \in TaskReturn(top.call, top.acc) :
              out' = [out EXCEPT ![i] =
                        IF rest = <<>>
                        THEN [o EXCEPT !.st = "done", !.stack = <<>>, !.res = r]
                        ELSE [o EXCEPT !.stack =
                                [rest EXCEPT ![Len(rest)].acc = Append(@, r)]]]
  /\ UNCHANGED <<woke, scn, innerByteStore, spawnCountStore, messages, cl, wk,
                 execs, enq, nsched, nset, late, eng>>

DirectNext ==
  \/ \E i \in 1..MaxInvocations : DirectInvoke(i)
  \/ \E i \in 1..MaxInvocations : DirectReturn(i)

DirectSpec == DirectInit /\ [][DirectNext]_vars

\* The invocations the client awaits run to their end
FairDirectSpec ==
  DirectSpec /\ \A i \in 1..MaxInvocations :
                  WF_vars(DirectInvoke(i)) /\ WF_vars(DirectReturn(i))

----------------------------------------------------------------------------
(* C19: outside a worker context an invocation runs the function itself,   *)
(* nested invocations included: the body of every call from the argument   *)
(* down to 0 is executed, nothing is read from or written to the store,    *)
(* nothing is put on the queue or counted, no error is raised whether or   *)
(* not the engine was set up, and the invocation ends with the function's  *)
(* result a(a+1)/2, in the order of the argument lists for map.            *)
C19_DirectInvoke ==
  /\ [](~isWorkerContext(1) =>
          \A i \in DOMAIN out :
            /\ out[i].err = ""
            /\ out[i].st = "done" =>
                 out[i].res = (scn.roots[i][2] * (scn.roots[i][2] + 1)) \div 2
            /\ out[i].st = "run" =>
                 /\ out[i].stack[1].call = scn.roots[i]
                 /\ \A d \in 2..Len(out[i].stack) :
                      out[i].stack[d].call =
                        <<"triangular_sum", out[i].stack[d - 1].call[2] - 1>>)
  /\ []((~isWorkerContext(1) /\ \A i \in DOMAIN out : out[i].st = "done") =>
          \A a \in 0..MaxArg :
            Cnt(execs, <<"triangular_sum", a>>) =
              Cardinality({i \in DOMAIN out : scn.roots[i][2] >= a}))
  /\ [][ /\ innerByteStore' = innerByteStore
         /\ messages' = messages
         /\ spawnCountStore' = spawnCountStore
         /\ enq' = enq /\ nsched' = nsched /\ nset' = nset
         /\ eng' = eng ]_vars
  /\ (~isWorkerContext(1)) ~> (\A i \in DOMAIN out : out[i].st = "done")

\* triangular_sum.map([2], [3]) on an engine that was never set up has
\* returned [3, 6]
C19_Witness ==
  /\ scn.name = "direct" /\ ~isWorkerContext(1) /\ ~eng.setup
  /\ scn.roots = << <<"triangular_sum", 2>>, <<"triangular_sum", 3>> >>
  /\ \A i \in DOMAIN out : out[i].st = "done"
  /\ out[1].res = 3 /\ out[2].res = 6
  /\ Cnt(execs, <<"triangular_sum", 0>>) = 2

----------------------------------------------------------------------------
(* Components exercised on their own *)

\* Nothing is scheduled and no worker has taken a message
Idle ==
  /\ spawnCountStore = EmptyMap
  /\ messages = <<>>
  /\ cl = [pc |-> "has_call", idx |-> 1, rootId |-> 0]
  /\ wk = [w \in Workers |-> Local0]
  /\ execs = EmptyMap
  /\ enq = EmptyMap
  /\ nsched = EmptyMap
  /\ nset = EmptyMap
  /\ late = {}
  /\ woke = {}

Unit(name) == [name |-> name, roots |-> <<>>, nw |-> 0]

----------------------------------------------------------------------------
(* Brrr.gather inside a worker context *)

\* What awaiting one invocation gives: a result, a Defer with the calls it
\* is missing, or another error
Outcomes ==
  { [kind |-> "value", v |-> 1, calls |-> <<>>],
    [kind |-> "value", v |-> 2, calls |-> <<>>],
    [kind |-> "defer", v |-> 0, calls |-> << <<"one", 0>> >>],
    [kind |-> "defer", v |-> 0, calls |-> << <<"one", 1>>, <<"one", 2>> >>],
    [kind |-> "error", v |-> 0, calls |-> <<>>] }

GatherInit ==
  /\ scn = Unit("gather")
  /\ eng = Eng0(1)
  /\ innerByteStore = EmptyMap
  /\ Idle
  /\ \E n \in 0..MaxGather : \E inv \in [1..n -> Outcomes] :
       out = [inv |-> inv, idx |-> 1, calls |-> <<>>, results |-> <<>>,
              st |-> "run"]

\* Mutant: gather gives up at the first Defer
GatherAwaitFirstDefer ==
  /\ scn.name = "gather" /\ isWorkerContext(1)
  /\ out.st = "run" /\ out.idx <= Len(out.inv)
  /\ LET o == out.inv[out.idx]
     IN  out' = IF o.kind = "value"
                THEN [out EXCEPT !.results = Append(@, o.v), !.idx = @ + 1]
                ELSE IF o.kind = "defer"
                THEN [out EXCEPT !.calls = o.calls, !.st = "defer"]
                ELSE [out EXCEPT !.st = "error"]
  /\ UNCHANGED <<woke, scn, innerByteStore, spawnCountStore, messages, cl, wk,
                 execs, enq, nsched, nset, late, eng>>

\* gather, one turn of `for (const invocation of invocations)`: the result
\* is pushed, a Defer's calls are collected, anything else is thrown
GatherAwait ==
  /\ scn.name = "gather" /\ isWorkerContext(1)
  /\ out.st = "run" /\ out.idx <= Len(out.inv)
  /\ LET o == out.inv[out.idx]
     IN  out' = IF o.kind = "value"
                THEN [out EXCEPT !.results = Append(@, o.v), !.idx = @ + 1]
                ELSE IF o.kind = "defer"
                THEN [out EXCEPT !.calls = @ \o o.calls, !.idx = @ + 1]
                ELSE [out EXCEPT !.st = "error"]
  /\ UNCHANGED <<woke, scn, innerByteStore, spawnCountStore, messages, cl, wk,
                 execs, enq, nsched, nset, late, eng>>

\* gather after the loop: `if (calls.length) throw new Defer(calls)`, else
\* `return results`
GatherEnd ==
  /\ scn.name = "gather" /\ isWorkerContext(1)
  /\ out.st = "run" /\ out.idx > Len(out.inv)
  /\ out' = [out EXCEPT !.st = IF Len(out.calls) > 0 THEN "defer"
                                ELSE "returned"]
  /\ UNCHANGED <<woke, scn, innerByteStore, spawnCountStore, messages, cl, wk,
                 execs, enq, nsched, nset, late, eng>>

GatherNext == GatherAwait \/ GatherEnd

GatherSpec == GatherInit /\ [][GatherNext]_vars

FairGatherSpec == GatherSpec /\ WF_vars(GatherNext)

\* The calls of every Defer among the first n invocations, in order
RECURSIVE Missing(_, _)
Missing(inv, n) ==
  IF n = 0 THEN <<>>
  ELSE Missing(inv, n - 1) \o (IF inv[n].kind = "defer" THEN inv[n].calls
                               ELSE <<>>)

Kinds(inv) == {inv[i].kind : i \in DOMAIN inv}

(* C21: gather in a worker context ends; when no invocation fails with an  *)
(* error other than Defer, it raises one Defer holding the calls of every  *)
(* deferring invocation, in order and none left out, if there is one, and  *)
(* otherwise returns the results in invocation order; when an invocation   *)
(* fails with another error, gather fails with that error at the first     *)
(* such invocation, having examined every invocation before it.            *)
C21_GatherCollects ==
  /\ [](out.st = "defer" =>
          /\ "error" \notin Kinds(out.inv) /\ "defer" \in Kinds(out.inv)
          /\ out.calls = Missing(out.inv, Len(out.inv)))
  /\ [](out.st = "returned" =>
          /\ Kinds(out.inv) \subseteq {"value"}
          /\ out.results = [i \in 1..Len(out.inv) |-> out.inv[i].v])
  /\ [](out.st = "error" =>
          /\ out.inv[out.idx].kind = "error"
          /\ \A i \in 1..(out.idx - 1) : out.inv[i].kind # "error"
          /\ out.calls = Missing(out.inv, out.idx - 1))
  /\ <>(out.st # "run")

\* The first invocation deferred, the second returned, the third deferred
\* on two calls: gather raised one Defer with the three calls
C21_Witness ==
  /\ scn.name = "gather" /\ out.st = "defer"
  /\ Len(out.inv) = 3
  /\ out.inv[1].kind = "defer" /\ out.inv[2].kind = "value"
  /\ out.inv[3].kind = "defer"
  /\ out.calls = << <<"one", 0>>, <<"one", 1>>, <<"one", 2>> >>

----------------------------------------------------------------------------
(* C22: a schedule call that finds the call record returns at once, with   *)
(* the store, the counters and the queue as they were; one that does not   *)
(* find it writes the call record under a root id never used before,       *)
(* counts it once, never meets the spawn limit, and returns having         *)
(* appended the single message rootId/memoKey, the only enqueue made for   *)
(* that root id so far.                                                    *)
C22_ScheduleOnceOrNothing ==
  /\ [][ cl' # cl =>
           LET key == MemKey("call", ClientCall)
           IN  /\ cl.pc = "has_call" =>
                    /\ innerByteStore' = innerByteStore
                    /\ spawnCountStore' = spawnCountStore
                    /\ messages' = messages /\ enq' = enq
                    /\ IF Has(innerByteStore, key)
                       THEN cl' = [cl EXCEPT !.idx = @ + 1]
                       ELSE cl' = [cl EXCEPT !.pc = "set_call"]
               /\ cl.pc = "set_call" =>
                    /\ Has(innerByteStore', key)
                    /\ CallOfPayload(innerByteStore'[key]) = ClientCall
                    /\ cl'.rootId \notin DOMAIN spawnCountStore
                    /\ cl'.rootId \notin DOMAIN enq
                    /\ \A i \in 1..Len(messages) : messages[i][1] # cl'.rootId
                    /\ messages' = messages
               /\ cl.pc = "incr" =>
                    /\ spawnCountStore'[cl.rootId] = 1
                    /\ cl'.pc = "put"
                    /\ messages' = messages /\ innerByteStore' = innerByteStore
               /\ cl.pc = "put" =>
                    /\ messages' = Append(messages, CallId(cl.rootId, ClientCall))
                    /\ Cnt(enq, cl.rootId) = 0 /\ Cnt(enq', cl.rootId) = 1
                    /\ cl' = [cl EXCEPT !.pc = "has_call", !.idx = @ + 1]
       ]_vars
  /\ [](cl.pc \in {"has_call", "set_call", "incr", "put"})

\* foo(1), foo(0), foo(1) were scheduled in turn: the second found no record
\* and got its own root id, the third found the first's record and returned
C22_Witness ==
  /\ scn.name = "again"
  /\ cl.idx = 4 /\ cl.pc = "has_call" /\ cl.rootId = 2
  /\ Cnt(enq, 1) >= 1 /\ Cnt(enq, 2) = 1

----------------------------------------------------------------------------
(* The Store operations on their own (suite 'store', InMemoryStore) *)

StoreKeys == {MemKey("value", "id-1"), MemKey("value", "id-2")}

\* Byte strings, the empty one included
StoreValues == {<<>>, <<1>>, <<2>>}

StoreInit ==
  /\ scn = Unit("store")
  /\ eng = Eng0(0)
  /\ innerByteStore = EmptyMap
  /\ Idle
  /\ out = [op |-> "", key |-> <<>>, value |-> <<>>, expected |-> <<>>,
            err |-> ""]

Err(ok) == IF ok THEN "" ELSE "CompareMismatch"

StoreRest ==
  UNCHANGED <<woke, scn, spawnCountStore, messages, cl, wk, execs, enq, nsched,
              nset, late, eng>>

\* InMemoryStore.set
StoreSet ==
  /\ scn.name = "store"
  /\ \E k \in StoreKeys, v \in StoreValues :
       /\ innerByteStore' = Put(innerByteStore, k, v)
       /\ out' = [op |-> "set", key |-> k, value |-> v, expected |-> <<>>,
                  err |-> ""]
  /\ StoreRest

\* InMemoryStore.setNewValue
StoreSetNewValue ==
  /\ scn.name = "store"
  /\ \E k \in StoreKeys, v \in StoreValues :
       LET r == SetNewValue(innerByteStore, k, v)
       IN  /\ innerByteStore' = r.store
           /\ out' = [op |-> "setNewValue", key |-> k, value |-> v,
                      expected |-> <<>>, err |-> Err(r.ok)]
  /\ StoreRest

\* InMemoryStore.compareAndSet
StoreCompareAndSet ==
  /\ scn.name = "store"
  /\ \E k \in StoreKeys, v \in StoreValues, e \in StoreValues :
       LET r == CompareAndSet(innerByteStore, k, v, e)
       IN  /\ innerByteStore' = r.store
           /\ out' = [op |-> "compareAndSet", key |-> k, value |-> v,
                      expected |-> e, err |-> Err(r.ok)]
  /\ StoreRest

\* InMemoryStore.compareAndDelete
StoreCompareAndDelete ==
  /\ scn.name = "store"
  /\ \E k \in StoreKeys, e \in StoreValues :
       LET r == CompareAndDelete(innerByteStore, k, e)
       IN  /\ innerByteStore' = r.store
           /\ out' = [op |-> "compareAndDelete", key |-> k, value |-> <<>>,
                      expected |-> e, err |-> Err(r.ok)]
  /\ StoreRest

StoreNext ==
  \/ StoreSet
  \/ StoreSetNewValue
  \/ StoreCompareAndSet
  \/ StoreCompareAndDelete

StoreSpec == StoreInit /\ [][StoreNext]_vars

\* The entries of the store other than k are as before the step
OthersKept(k) ==
  /\ DOMAIN innerByteStore' \ {k} = DOMAIN innerByteStore \ {k}
  /\ \A j \in DOMAIN innerByteStore \ {k} : innerByteStore'[j] = innerByteStore[j]

(* C23: setNewValue succeeds exactly when the key is absent, compareAndSet *)
(* and compareAndDelete exactly when the key is present with the expected  *)
(* bytes; a success writes (or removes) that one entry and no other; every *)
(* failure is CompareMismatch and leaves the whole store as it was.        *)
C23_ConditionalStoreOps ==
  [][ LET k == out'.key
          had == Has(innerByteStore, k)
          match == had /\ innerByteStore[k] = out'.expected
      IN  /\ out'.err \in {"", "CompareMismatch"}
          /\ out'.err = "CompareMismatch" => innerByteStore' = innerByteStore
          /\ out'.op = "setNewValue" =>
               /\ out'.err = "" <=> ~had
               /\ out'.err = "" =>
                    /\ Has(innerByteStore', k) /\ innerByteStore'[k] = out'.value
                    /\ OthersKept(k)
          /\ out'.op = "compareAndSet" =>
               /\ out'.err = "" <=> match
               /\ out'.err = "" =>
                    /\ Has(innerByteStore', k) /\ innerByteStore'[k] = out'.value
                    /\ OthersKept(k)
          /\ out'.op = "compareAndDelete" =>
               /\ out'.err = "" <=> match
               /\ out'.err = "" => ~Has(innerByteStore', k) /\ OthersKept(k)
    ]_vars

\* compareAndDelete on a missing key has just failed with CompareMismatch
\* while the other key holds a value
C23_Witness ==
  /\ scn.name = "store"
  /\ out.op = "compareAndDelete" /\ out.err = "CompareMismatch"
  /\ ~Has(innerByteStore, out.key)
  /\ innerByteStore # EmptyMap

----------------------------------------------------------------------------
(* The Queue on its own (suite 'Queue implementation', InMemoryQueue), with *)
(* several consumers                                                        *)

Bodies == {"message-1", "message-2"}

Consumers == {1, 2}

QueueInit ==
  /\ scn = Unit("queue")
  /\ eng = Eng0(0)
  /\ innerByteStore = EmptyMap
  /\ Idle
  /\ out = [op |-> "", err |-> "", info |-> 0, put |-> <<>>, gets |-> 0,
            got |-> [c \in Consumers |-> <<>>]]

QueueRest ==
  UNCHANGED <<woke, scn, innerByteStore, spawnCountStore, cl, wk, execs, enq,
              nsched, nset, late, eng>>

\* InMemoryQueue.putMessage: messages.pushBack(body)
QueuePut ==
  /\ scn.name = "queue"
  /\ Len(out.put) < MaxPuts
  /\ \E b \in Bodies :
       /\ messages' = Append(messages, b)
       /\ out' = [out EXCEPT !.op = "putMessage", !.err = "",
                             !.put = Append(@, b)]
  /\ QueueRest

\* Mutant: getMessage hands out the front message and leaves it queued
QueueGetPeek(c) ==
  /\ scn.name = "queue"
  /\ IF messages = <<>>
     THEN /\ out' = [out EXCEPT !.op = "getMessage", !.err = "QueueIsEmpty"]
          /\ UNCHANGED messages
     ELSE /\ out' = [out EXCEPT !.op = "getMessage", !.err = "",
                                !.gets = @ + 1,
                                !.got[c] = Append(@, Head(messages))]
          /\ UNCHANGED messages
  /\ QueueRest

\* InMemoryQueue.getMessage called by consumer c: QueueIsEmpty when there is
\* nothing, else messages.popFront()
QueueGet(c) ==
  /\ scn.name = "queue"
  /\ IF messages = <<>>
     THEN /\ out' = [out EXCEPT !.op = "getMessage", !.err = "QueueIsEmpty"]
          /\ UNCHANGED messages
     ELSE /\ out' = [out EXCEPT !.op = "getMessage", !.err = "",
                                !.gets = @ + 1,
                                !.got[c] = Append(@, Head(messages))]
          /\ messages' = Tail(messages)
  /\ QueueRest

\* InMemoryQueue.getInfo: messages.size()
QueueGetInfo ==
  /\ scn.name = "queue"
  /\ out' = [out EXCEPT !.op = "getInfo", !.err = "", !.info = Len(messages)]
  /\ UNCHANGED messages
  /\ QueueRest

QueueNext ==
  \/ QueuePut
  \/ \E c \in Consumers : QueueGet(c)
  \/ QueueGetInfo

QueueSpec == QueueInit /\ [][QueueNext]_vars

\* Some consumer keeps calling getMessage
FairQueueSpec == QueueSpec /\ WF_vars(\E c \in Consumers : QueueGet(c))

\* How many times body b occurs in the sequence q
Occurs(q, b) == Cardinality({i \in DOMAIN q : q[i] = b})

(* C24: for every body, the messages put so far are those still queued     *)
(* plus those handed to the consumers, each counted once, and what is      *)
(* queued is eventually handed out; the length getInfo reports, and the    *)
(* queue's length at all times, is the number of puts minus the number of  *)
(* successful gets; getMessage on an empty queue raises QueueIsEmpty and   *)
(* leaves the queue and the counts as they were, and on a non-empty queue  *)
(* succeeds with the oldest message.                                       *)
C24_QueueDeliversOnce ==
  /\ [](\A b \in Bodies :
          Occurs(out.put, b) =
            Occurs(messages, b) + Occurs(out.got[1], b) + Occurs(out.got[2], b))
  /\ [](/\ Len(messages) = Len(out.put) - out.gets
        /\ out.gets = Len(out.got[1]) + Len(out.got[2])
        /\ out.op = "getInfo" => out.info = Len(out.put) - out.gets)
  /\ [][ out'.op = "getMessage" =>
           IF messages = <<>>
           THEN /\ out'.err = "QueueIsEmpty"
                /\ messages' = messages
                /\ out'.gets = out.gets /\ out'.got = out.got
           ELSE /\ out'.err = ""
                /\ out'.gets = out.gets + 1
                /\ \E c \in Consumers :
                     out'.got = [out.got EXCEPT ![c] = Append(@, Head(messages))]
       ]_vars
  /\ []<>(messages = <<>>)

\* Two equal bodies and one other were put; each consumer got some of them,
\* all three are handed out, and the next getMessage raised QueueIsEmpty
C24_Witness ==
  /\ scn.name = "queue"
  /\ out.put = <<"message-1", "message-1", "message-2">>
  /\ out.got[1] = <<"message-1", "message-2">>
  /\ out.got[2] = <<"message-1">>
  /\ messages = <<>>
  /\ out.op = "getMessage" /\ out.err = "QueueIsEmpty"

----------------------------------------------------------------------------
(* Brrr.task: the registry of task names *)

\* Names a function can carry; an anonymous function's name is ""
FnNames == {"", "foo", "bar", "baz"}

\* The first argument when it is not a name
Omitted == "<omitted>"

RegistryInit ==
  /\ scn = Unit("registry")
  /\ eng = Eng0(0)
  /\ innerByteStore = EmptyMap
  /\ Idle
  /\ out = [tasks |-> {}, name |-> Omitted, fn |-> "", err |-> ""]

\* task(fn) and task(name, fn): with a string first and a function second
\* the name is taken as given, DuplicateTask when registered; otherwise the
\* function's own name is used, InvalidTaskName when empty, DuplicateTask
\* when registered
RegisterTask ==
  /\ scn.name = "registry"
  /\ \E name \in FnNames \cup {Omitted}, fn \in FnNames :
       LET used == IF name # Omitted THEN name ELSE fn
           err == IF name # Omitted
                  THEN IF name \in out.tasks THEN "DuplicateTask" ELSE ""
                  ELSE IF fn = "" THEN "InvalidTaskName"
                  ELSE IF fn \in out.tasks THEN "DuplicateTask" ELSE ""
       IN  out' = [tasks |-> IF err = "" THEN out.tasks \cup {used}
                             ELSE out.tasks,
                   name |-> name, fn |-> fn, err |-> err]
  /\ UNCHANGED <<woke, scn, innerByteStore, spawnCountStore, messages, cl, wk,
                 execs, enq, nsched, nset, late, eng>>

RegistryNext == RegisterTask

RegistrySpec == RegistryInit /\ [][RegistryNext]_vars

\* The name a task call registers under
UsedName(o) == IF o.name # Omitted THEN o.name ELSE o.fn

(* C25: a task call whose name is already registered raises DuplicateTask  *)
(* and leaves the registry as it was; a task call whose name is empty,     *)
(* given as the first argument or taken from an anonymous function, raises *)
(* InvalidTaskName and leaves the registry as it was.                      *)
C25_NamesValidated ==
  [][ /\ (UsedName(out') # "" /\ UsedName(out') \in out.tasks) =>
           out'.err = "DuplicateTask" /\ out'.tasks = out.tasks
      /\ UsedName(out') = "" =>
           out'.err = "InvalidTaskName" /\ out'.tasks = out.tasks
    ]_vars

----------------------------------------------------------------------------
(* Memory.withCas on its own: fn is any function that succeeds, fails with *)
(* CompareMismatch, or fails with another error                            *)

FnResults == {"", "CompareMismatch", "MemoryValueNotFound"}

WithCasInit ==
  /\ scn = Unit("withCas")
  /\ eng = Eng0(0)
  /\ innerByteStore = EmptyMap
  /\ Idle
  /\ out = [attempt |-> 0, calls |-> 0, last |-> "", st |-> "run", err |-> ""]

\* One turn of withCas's loop: `await fn()`, return; or the catch
CasAttempt ==
  /\ scn.name = "withCas"
  /\ out.st = "run"
  /\ \E r \in FnResults :
       out' = IF r = ""
              THEN [out EXCEPT !.calls = @ + 1, !.last = r, !.st = "returned"]
              ELSE IF r # "CompareMismatch"
              THEN [out EXCEPT !.calls = @ + 1, !.last = r, !.st = "error",
                               !.err = r]
              ELSE IF CasExhausted(out.attempt)
              THEN [out EXCEPT !.calls = @ + 1, !.last = r, !.st = "error",
                               !.err = "CasRetryLimit"]
              ELSE [out EXCEPT !.calls = @ + 1, !.last = r, !.attempt = @ + 1]
  /\ UNCHANGED <<woke, scn, innerByteStore, spawnCountStore, messages, cl, wk,
                 execs, enq, nsched, nset, late, eng>>

WithCasNext == CasAttempt

WithCasSpec == WithCasInit /\ [][WithCasNext]_vars

(* C26 as stated: fn is invoked at most CAS_RETRY_LIMIT times, and         *)
(* CasRetryLimit is raised when the CAS_RETRY_LIMIT-th invocation fails    *)
(* with CompareMismatch.                                                   *)
C26_AtMostLimitCalls ==
  /\ [](out.calls <= CAS_RETRY_LIMIT)
  /\ [](out.err = "CasRetryLimit" => out.calls = CAS_RETRY_LIMIT)

(* C26: withCas invokes fn at most CAS_RETRY_LIMIT + 1 times, once and     *)
(* then once more for each of up to CAS_RETRY_LIMIT retries; it invokes fn *)
(* again only after a CompareMismatch; a success returns and any other     *)
(* error is raised as it is, both without a further invocation; and        *)
(* CasRetryLimit is raised exactly when invocation CAS_RETRY_LIMIT + 1     *)
(* fails with CompareMismatch.                                             *)
C26_AtMostLimitRetries ==
  /\ [](out.calls <= CAS_RETRY_LIMIT + 1)
  /\ [](out.err = "CasRetryLimit" <=>
          (out.calls = CAS_RETRY_LIMIT + 1 /\ out.last = "CompareMismatch"))
  /\ [](out.st = "returned" <=> (out.calls > 0 /\ out.last = ""))
  /\ [](out.last \notin {"", "CompareMismatch"} =>
          out.st = "error" /\ out.err = out.last)
  /\ [][ out'.calls = out.calls + 1 /\ out.st = "run"
         /\ (out.calls > 0 => out.last = "CompareMismatch") ]_vars

\* fn failed with CompareMismatch CAS_RETRY_LIMIT + 1 times and withCas has
\* raised CasRetryLimit
C26_Witness ==
  /\ scn.name = "withCas"
  /\ out.st = "error" /\ out.err = "CasRetryLimit"
  /\ out.calls = CAS_RETRY_LIMIT + 1

----------------------------------------------------------------------------
(* Wrrrker.loop over a RedisQueue: getMessage reads the length, then pops  *)
(* with a blocking pop that gives up after RECV_BLOCK_SECS                 *)

RedisInit ==
  /\ scn = [name |-> "redis", roots |-> <<>>, nw |-> 2]
  /\ eng = Eng0(2)
  /\ innerByteStore = EmptyMap
  /\ Idle
  /\ out = [put |-> <<>>, got |-> [w \in Workers |-> <<>>]]

RedisRest ==
  UNCHANGED <<woke, scn, innerByteStore, spawnCountStore, cl, execs, enq, nsched,
              nset, late, eng>>

\* Wrrrker.loop's catch: where the loop goes on an error of getMessage or
\* handleMessage
LoopOn(err) ==
  CASE err = "QueueIsEmpty"  -> "poll"
    [] err = "QueueIsClosed" -> "returned"
    [] OTHER                 -> "dead"

\* RedisQueue.putMessage: rPush
RedisPut ==
  /\ scn.name = "redis"
  /\ Len(out.put) < MaxPuts
  /\ \E b \in Bodies :
       /\ messages' = Append(messages, b)
       /\ out' = [out EXCEPT !.put = Append(@, b)]
  /\ UNCHANGED wk
  /\ RedisRest

\* RedisQueue.getMessage, first half: getInfo; QueueIsEmpty when lLen is 0
RedisLen(w) ==
  /\ scn.name = "redis"
  /\ At(w, "poll")
  /\ IF Len(messages) = 0
     THEN Set(w, [Local0 EXCEPT !.pc = LoopOn("QueueIsEmpty")])
     ELSE Set(w, [Local0 EXCEPT !.pc = "blpop"])
  /\ UNCHANGED <<messages, out>>
  /\ RedisRest

\* RedisQueue.getMessage, second half: blPop returns the oldest element; the
\* message is handled and the loop polls again
RedisPop(w) ==
  /\ scn.name = "redis"
  /\ At(w, "blpop")
  /\ messages # <<>>
  /\ messages' = Tail(messages)
  /\ out' = [out EXCEPT !.got[w] = Append(@, Head(messages))]
  /\ Set(w, Local0)
  /\ RedisRest

\* RedisQueue.getMessage, second half: nothing arrived within the block
\* time, blPop returns null, QueuePopTimeoutError
RedisTimeout(w) ==
  /\ scn.name = "redis"
  /\ At(w, "blpop")
  /\ messages = <<>>
  /\ Set(w, [Local0 EXCEPT !.pc = LoopOn("QueuePopTimeout"),
                           !.err = IF LoopOn("QueuePopTimeout") = "dead"
                                   THEN "QueuePopTimeout" ELSE ""])
  /\ UNCHANGED <<messages, out>>
  /\ RedisRest

RedisNext ==
  \/ RedisPut
  \/ \E w \in Workers : RedisLen(w)
  \/ \E w \in Workers : RedisPop(w)
  \/ \E w \in Workers : RedisTimeout(w)

RedisSpec == RedisInit /\ [][RedisNext]_vars

(* C27: a worker whose blocking pop timed out goes on polling: no worker   *)
(* is ever terminated by QueuePopTimeout, in particular not the one of two *)
(* workers that lost the race for the last message.                        *)
C27_PopTimeoutTransient ==
  \A w \in Workers : wk[w].pc # "dead" /\ wk[w].err # "QueuePopTimeout"

----------------------------------------------------------------------------
(* C28: a waiter record is deleted only by the compareAndDelete of a       *)
(* withPendingReturnsRemove call for its child, and every parent in the    *)
(* deleted record has been enqueued by that call before (wk[w].woken, the  *)
(* parents this call has put on the queue, over all its attempts); a       *)
(* parent joins woken only in the step that appends its message.           *)
C28_DeletedWaitersWoken ==
  [][ /\ \A k \in DOMAIN innerByteStore :
           (k[1] = "pending_returns" /\ k \notin DOMAIN innerByteStore') =>
             \E w \in Workers :
               /\ wk[w].pc = "rm_del" /\ wk[w].msg[2] = k[2]
               /\ wk'[w] = TurnDone
               /\ innerByteStore[k] = wk[w].expected
               /\ PrDecode(innerByteStore[k]).returns
                    \subseteq SeqToSet(wk[w].woken)
      /\ \A w \in Workers :
           wk'[w].woken # wk[w].woken =>
             \/ wk'[w].woken = <<>>
             \/ \E p \in SeqToSet(wk'[w].woken) :
                  /\ wk'[w].woken = Append(wk[w].woken, p)
                  /\ messages' = Append(messages, CallId(p[1], p[2]))
    ]_vars

\* The completion of tick(0) has woken its two parents on the first attempt
\* and is about to delete the record that names them
C28_Witness ==
  \E w \in Workers :
    LET pk == MemKey("pending_returns", wk[w].msg[2])
    IN  /\ wk[w].pc = "rm_del" /\ wk[w].attempt = 0
        /\ Has(innerByteStore, pk) /\ innerByteStore[pk] = wk[w].expected
        /\ Cardinality(PrDecode(wk[w].expected).returns) = 2
        /\ Len(wk[w].woken) = 2

----------------------------------------------------------------------------
(* C29: within one withPendingReturnsRemove call, over all its attempts,   *)
(* no parent is enqueued twice: the parents the call has put on the queue  *)
(* are pairwise different, the waiters passed on an attempt are those of   *)
(* the record not passed before, and they are disjoint from `handled`.     *)
C29_EachParentOncePerCall ==
  \A w \in Workers :
    /\ \A i, j \in 1..Len(wk[w].woken) :
         wk[w].woken[i] = wk[w].woken[j] => i = j
    /\ wk[w].pc \in {"rm_incr", "rm_put"} =>
         /\ SeqToSet(wk[w].calls) \cap wk[w].handled = {}
         /\ SeqToSet(wk[w].calls) =
              PrDecode(wk[w].expected).returns \ wk[w].handled
    /\ wk[w].pc \in {"rm_get", "rm_del"} =>
         wk[w].handled = SeqToSet(wk[w].woken)

\* The delete of the first attempt met a record grown by a second waiter:
\* the retry has passed only the new waiter, two parents woken in all
C29_Witness ==
  \E w \in Workers :
    /\ wk[w].pc = "rm_del" /\ wk[w].attempt = 1
    /\ Len(wk[w].woken) = 2
    /\ Cardinality(PrDecode(wk[w].expected).returns) = 2

----------------------------------------------------------------------------
(* C30: a wake-up message for parent p on behalf of child c is enqueued    *)
(* only when value[c] is stored; the value stays stored; and an execution  *)
(* of p that invokes c after such a wake-up reads the value and does not   *)
(* put c among the calls it defers on.                                     *)
C30_WakeAfterValue ==
  /\ [][ \A pc \in woke' \ woke : HasValue(pc[2]) /\ StoredNext(pc[2]) ]_vars
  /\ [](\A pc \in woke : HasValue(pc[2]))
  /\ [][ \A w \in Workers :
           (wk[w].pc = "invoke" /\ wk'[w] # wk[w] /\ wk'[w].pc # "dead") =>
             LET kid == TaskKids(wk[w].call)[wk[w].idx]
             IN  <<wk[w].call, kid>> \in woke =>
                   /\ wk'[w].pc # "set_call" \/ TaskGather(wk[w].call)
                   /\ wk'[w].calls = wk[w].calls
                   /\ kid \notin SeqToSet(wk'[w].calls)
       ]_vars

\* foo(1), woken on behalf of foo(0), runs again, has read foo(0)'s value
\* and is about to store its own
C30_Witness ==
  /\ <<<<"foo", 1>>, <<"foo", 0>>>> \in woke
  /\ wk[1].pc = "set_value" /\ wk[1].call = <<"foo", 1>>
  /\ Cnt(execs, <<"foo", 1>>) = 2
  /\ wk[1].ret = innerByteStore[MemKey("value", <<"foo", 0>>)]

----------------------------------------------------------------------------
(* Memory.addPendingReturn called by one worker, one call after the other, *)
(* with scheduleJob = putJob as in scheduleCallNested.  The root may have  *)
(* used most of its spawn budget already, so that putJob can raise         *)
(* SpawnLimit; the operator then clears the counters and runs wrrrk()      *)
(* again ('recoverable').                                                  *)

RegChildren == {<<"one", 0>>, <<"one", 1>>}

RegParents == {<<1, <<"fan", 2>>>>, <<1, <<"fan", 3>>>>, <<2, <<"fan", 2>>>>}

RegisterInit ==
  /\ scn = [name |-> "register", roots |-> <<>>, nw |-> 1]
  /\ innerByteStore = EmptyMap
  /\ spawnCountStore \in {EmptyMap, [r \in {1} |-> SPAWN_LIMIT - 1]}
  /\ messages = <<>>
  /\ cl = [pc |-> "has_call", idx |-> 1, rootId |-> 0]
  /\ wk = [w \in Workers |-> Local0]
  /\ execs = EmptyMap
  /\ enq = EmptyMap
  /\ nsched = EmptyMap
  /\ nset = EmptyMap
  /\ late = {}
  /\ woke = {}
  /\ eng = Eng0(1)
  /\ out = [n |-> 0, child |-> <<"", 0>>, parent |-> NoMsg,
            store0 |-> EmptyMap, msgs0 |-> <<>>, count0 |-> 0, runs0 |-> 1]

\* scheduleCallNested hands (child, parent message) to addPendingReturn;
\* `out` keeps what the store, the queue and the root's counter were then
RegisterCall ==
  /\ At(1, "poll")
  /\ eng.singleton[1]
  /\ out.n < MaxRegistrations
  /\ \E c \in RegChildren, p \in RegParents :
       /\ Set(1, [Local0 EXCEPT !.pc = "ap_get", !.msg = p, !.calls = <<c>>,
                                !.idx = 1])
       /\ out' = [n |-> out.n + 1, child |-> c, parent |-> p,
                  store0 |-> innerByteStore, msgs0 |-> messages,
                  count0 |-> Cnt(spawnCountStore, p[1]),
                  runs0 |-> eng.wrrrks[1]]
  /\ UNCHANGED <<woke, scn, innerByteStore, spawnCountStore, messages, cl,
                 execs, enq, nsched, nset, late, eng>>

RegisterNext ==
  \/ RegisterCall
  \/ AddGet(1) \/ AddNew(1) \/ AddIncr(1) \/ AddPut(1) \/ AddCas(1)
  \/ ClearCounters \/ Dispose(1) \/ Wrrrk(1)

RegisterSpec == RegisterInit /\ [][RegisterNext]_vars

\* What the call in `out` found when it was made
RegKind ==
  LET pk == MemKey("pending_returns", out.child)
  IN  IF ~Has(out.store0, pk) THEN "first"
      ELSE LET old == PrDecode(out.store0[pk])
           IN  IF old.scheduledAt = 0 THEN "unscheduled"
               ELSE IF out.parent \in old.returns THEN "again"
               ELSE "later"

\* This step is the return of the addPendingReturn call in `out`
RegReturns == wk[1].pc \in {"ap_get", "ap_new", "ap_cas"} /\ wk'[1].pc = "poll"

\* scheduleJob invocations made by the call in `out` so far
RegJobs == Cnt(spawnCountStore, out.parent[1]) - out.count0

RegMessage == CallId(out.parent[1], out.child)

----------------------------------------------------------------------------
(* C31: addPendingReturn(c, p, scheduleJob) run without interference: the  *)
(* first waiter of c invokes scheduleJob exactly once (one message for c   *)
(* is enqueued and the record holds p and a timestamp); a later waiter     *)
(* that finds scheduledAt set is added to the record with the timestamp    *)
(* kept and scheduleJob not invoked; a parent that is already in the       *)
(* record of a scheduled child returns after the store.get alone, with no  *)
(* store write, no scheduleJob and no enqueue.                             *)
C31_SequentialRegistration ==
  [][ RegReturns =>
        LET pk == MemKey("pending_returns", out.child)
            after == PrDecode(innerByteStore'[pk])
        IN  CASE RegKind = "first" ->
                   /\ RegJobs' = 1
                   /\ messages' = Append(out.msgs0, RegMessage)
                   /\ after.returns = {out.parent}
                   /\ after.scheduledAt \in Times
              [] RegKind = "later" ->
                   LET old == PrDecode(out.store0[pk])
                   IN  /\ RegJobs' = 0
                       /\ messages' = out.msgs0
                       /\ after = PendingReturns(old.scheduledAt,
                                                 old.returns \cup {out.parent})
              [] RegKind = "again" ->
                   /\ RegJobs' = 0
                   /\ messages' = out.msgs0
                   /\ innerByteStore' = out.store0
                   /\ wk[1].pc = "ap_get"
              [] OTHER -> TRUE
    ]_vars

\* Three calls for one child have returned: a first waiter, a second
\* parent, and the second parent once more; one message was enqueued
C31_Witness ==
  /\ out.n = 3 /\ RegKind = "again" /\ wk[1].pc = "poll"
  /\ out.runs0 = eng.wrrrks[1]
  /\ Cardinality(PrDecode(innerByteStore[MemKey("pending_returns", out.child)]).returns) = 2
  /\ messages = <<CallId(1, out.child)>>

----------------------------------------------------------------------------
----------------------------------------------------------------------------
----------------------------------------------------------------------------
(* C34: the waiter record and the value of a child side by side            *)

\* The memo keys that have a waiter record and a value
BothStored ==
  {k[2] : k \in {x \in DOMAIN innerByteStore :
                   x[1] = "pending_returns" /\ HasValue(x[2])}}

\* Some worker handling c is past its setValue(c) and has not left its
\* withPendingReturnsRemove(c)
InWindow(c) == \E w \in Workers : wk[w].msg[2] = c /\ wk[w].pc \in RemovePcs

\* c is on its way to run again: a parent's addPendingReturn on c is in
\* progress, a message for c is queued, or a worker executes c's body
RunsAgain(c) ==
  \/ \E w \in Workers :
       /\ wk[w].pc \in {"ap_get", "ap_new", "ap_incr", "ap_put", "ap_cas"}
       /\ Child(w) = c
  \/ \E i \in 1..Len(messages) : messages[i][2] = c
  \/ \E w \in Workers : wk[w].msg[2] = c /\ wk[w].pc \in {"invoke", "set_value"}

(* C34 as stated: whenever pending_returns[c] and value[c] both exist,     *)
(* some worker is between its setValue(c) and the end of its               *)
(* withPendingReturnsRemove(c).                                            *)
C34_BothOnlyInWindow == \A c \in BothStored : InWindow(c)

(* C34 amended: when both exist, a worker is in that window, or c is on    *)
(* its way to run again for a parent that registered after the value was   *)
(* stored, or a worker was terminated by an error; with a single worker    *)
(* that has not failed it is always the window.                            *)
C34_BothWhileDrainingOrRerun ==
  \A c \in BothStored :
    /\ InWindow(c) \/ RunsAgain(c) \/ WorkerCrashed
    /\ (scn.nw = 1 /\ ~WorkerCrashed) => InWindow(c)

\* A worker has stored foo(0)'s value and is waking the parent found in
\* its waiter record
C34_Witness ==
  /\ wk[1].pc = "rm_put" /\ wk[1].msg[2] = <<"foo", 0>>
  /\ BothStored = {<<"foo", 0>>}
  /\ ~wk[1].kae

----------------------------------------------------------------------------
(* C35: one worker, the parent seq(SPAWN_LIMIT + 3) invoking its children  *)
(* one after the other ('breadth manual limit'): every child costs two     *)
(* enqueues of the root's budget, its own and the parent's wake-up.  The   *)
(* worker can only come to rest terminated by SpawnLimit, and then the     *)
(* children were executed SPAWN_LIMIT / 2 times and the parent             *)
(* (SPAWN_LIMIT + 1) / 2 times, rounded down: for an even limit L both are *)
(* L / 2.  Each child is enqueued and executed at most once, and the       *)
(* root's enqueues are its own message, the children's and the wake-ups,   *)
(* the latter two in turn.                                                 *)
C35_WakeUpsCountAgainstLimit ==
  scn.name = "manual" =>
    LET p == scn.roots[1]
        n == p[2]
        kidsRun == ExecsUpTo("one", n)
    IN  /\ kidsRun <= SPAWN_LIMIT \div 2
        /\ Cnt(execs, p) <= (SPAWN_LIMIT + 1) \div 2
        /\ \A i \in 0..n : Cnt(execs, <<"one", i>>) <= 1
        /\ \A i \in 0..n : Cnt(nsched, CallId(1, <<"one", i>>)) <= 1
        /\ LET kidsPut == Cardinality({i \in 0..n :
                                         Cnt(nsched, CallId(1, <<"one", i>>)) = 1})
           IN  /\ Cnt(enq, 1) = (IF Scheduled(1) THEN 1 ELSE 0) + kidsPut
                                  + Cardinality(woke)
               /\ kidsPut - Cardinality(woke) \in {0, 1}
               /\ Cnt(spawnCountStore, 1) - Cnt(enq, 1) \in {0, 1}
        /\ \A w \in Workers :
             wk[w].pc = "dead" =>
               /\ wk[w].err = "SpawnLimit"
               /\ kidsRun = SPAWN_LIMIT \div 2
               /\ Cnt(execs, p) = (SPAWN_LIMIT + 1) \div 2
               /\ Cnt(enq, 1) = SPAWN_LIMIT
        /\ Quiescent => Crashed(1, "SpawnLimit")
        /\ ~HasValue(p)

\* The limit is even; the worker was terminated while it woke the parent
\* for the last child that ran
C35_Witness ==
  /\ scn.name = "manual" /\ Quiescent
  /\ SPAWN_LIMIT % 2 = 0
  /\ Crashed(1, "SpawnLimit")
  /\ Cnt(execs, scn.roots[1]) = SPAWN_LIMIT \div 2
  /\ ExecsUpTo("one", scn.roots[1][2]) = SPAWN_LIMIT \div 2
  /\ wk[1].msg[2][1] = "one"

----------------------------------------------------------------------------
(* C36: termination of a finite acyclic workflow                           *)

\* Every running worker is at the top of its loop or terminated, and the
\* queue is empty unless no worker is left to take its messages
AtRest ==
  /\ ClientDone
  /\ \A w \in Workers : wk[w].pc \in {"poll", "dead"}
  /\ messages = <<>> \/ \A w \in Workers : w <= scn.nw => wk[w].pc = "dead"

(* C36 as stated: the system reaches quiescence, the queue empty and no    *)
(* worker in a turn.                                                       *)
C36_ReachesQuiescence == <>[]Quiescent

(* C36 amended: the executions of every call are bounded (no root gets     *)
(* more than SPAWN_LIMIT messages), and the system comes to rest: from     *)
(* some point on every worker is at the top of its loop or terminated, and *)
(* the queue is empty unless every worker was terminated by an error.      *)
C36_BoundedAndComesToRest ==
  /\ [](\A k \in DOMAIN execs : execs[k] <= Len(scn.roots) * SPAWN_LIMIT)
  /\ [](\A r \in DOMAIN enq : enq[r] <= SPAWN_LIMIT)
  /\ [](\A w \in Workers :
          wk[w].pc = "dead" => wk[w].err \in {"SpawnLimit", "CasRetryLimit"})
  /\ <>[]AtRest

\* Two workers and two parents of one child: the child was enqueued and
\* executed again for a parent that registered late, and the system has
\* come to rest with everything stored and the queue empty
C36_Witness ==
  /\ scn.name = "shared" /\ Quiescent /\ ~WorkerCrashed
  /\ Cnt(execs, <<"tick", 0>>) >= 2
  /\ late # {}
  /\ RootStored(1) /\ RootStored(2)

----------------------------------------------------------------------------
(* The text of a queue message: Brrr.putJob writes `${rootId}/${memoKey}`, *)
(* Wrrrker.parseCallId reads it.  Strings are sequences of characters.     *)

\* Strings over the characters A, at most n long
Strings(A, n) == UNION {[1..k -> A] : k \in 0..n}

\* rootIds: base64url text, which has no '/'
RootIdTexts == Strings({"Q", "-"}, 2) \ {<<>>}

\* JSON.stringify of a string made of characters that need no escape ('/'
\* is written as it is)
JsonString(str) == <<"\"">> \o str \o <<"\"">>

\* NaiveCall.memoKey = JSON.stringify([taskName, args]), one string argument
MemoKeyText(taskName, arg) ==
  <<"[">> \o JsonString(taskName) \o <<",", "[">> \o JsonString(arg) \o <<"]", "]">>

\* putJob's message body
CallIdText(rootId, memoKey) == rootId \o <<"/">> \o memoKey

RECURSIVE Split(_, _)
\* String.prototype.split(sep), sep one character: the pieces between the
\* separators, all of them
Split(str, sep) ==
  IF \A i \in 1..Len(str) : str[i] # sep THEN <<str>>
  ELSE LET i == CHOOSE j \in 1..Len(str) :
                  str[j] = sep /\ \A k \in 1..(j - 1) : str[k] # sep
       IN  <<SubSeq(str, 1, i - 1)>> \o Split(SubSeq(str, i + 1, Len(str)), sep)

\* Wrrrker.parseCallId: const [rootId, memoKey] = callId.split('/')
ParseCallId(callId) ==
  LET parts == Split(callId, "/")
  IN  [rootId |-> parts[1],
       memoKey |-> IF Len(parts) >= 2 THEN parts[2] ELSE <<"undefined">>]

ParseInit ==
  /\ scn = Unit("parse")
  /\ eng = Eng0(0)
  /\ innerByteStore = EmptyMap
  /\ Idle
  /\ out = [st |-> "idle", rootId |-> <<>>, memoKey |-> <<>>, body |-> <<>>,
            parsed |-> [rootId |-> <<>>, memoKey |-> <<>>]]

\* putJob(memoKey, rootId) for a call of the default codec
ParsePutJob ==
  /\ scn.name = "parse"
  /\ out.st \in {"idle", "parsed"}
  /\ \E r \in RootIdTexts, t \in Strings({"f", "/"}, MaxStr) \ {<<>>},
        a \in Strings({"x", "/"}, MaxStr - 1) :
       out' = [st |-> "queued", rootId |-> r, memoKey |-> MemoKeyText(t, a),
               body |-> CallIdText(r, MemoKeyText(t, a)),
               parsed |-> [rootId |-> <<>>, memoKey |-> <<>>]]
  /\ UNCHANGED <<woke, scn, innerByteStore, spawnCountStore, messages, cl, wk,
                 execs, enq, nsched, nset, late, eng>>

\* handleMessage(message.body): parseCallId
ParseMessage ==
  /\ scn.name = "parse"
  /\ out.st = "queued"
  /\ out' = [out EXCEPT !.st = "parsed", !.parsed = ParseCallId(out.body)]
  /\ UNCHANGED <<woke, scn, innerByteStore, spawnCountStore, messages, cl, wk,
                 execs, enq, nsched, nset, late, eng>>

ParseNext == ParsePutJob \/ ParseMessage

ParseSpec == ParseInit /\ [][ParseNext]_vars

----------------------------------------------------------------------------
(* C37: for every rootId without '/' and every memoKey of the default      *)
(* codec, task names and arguments with '/' included, parsing the message  *)
(* rootId + "/" + memoKey gives back exactly (rootId, memoKey).            *)
C37_ParseGivesBackBoth ==
  out.st = "parsed" =>
    out.parsed = [rootId |-> out.rootId, memoKey |-> out.memoKey]

----------------------------------------------------------------------------
(* putJob on a RedisQueue whose client may have been closed:               *)
(* addPendingReturn calls made one after the other, scheduleJob = putJob.  *)
(* `eng.closed` is !client.isOpen; `out.lost` is set while a promise of    *)
(* putMessage has been rejected with nobody awaiting it.                   *)

RedisJobInit ==
  /\ scn = [name |-> "redisjob", roots |-> <<>>, nw |-> 1]
  /\ innerByteStore = EmptyMap
  /\ spawnCountStore = EmptyMap
  /\ messages = <<>>
  /\ cl = [pc |-> "has_call", idx |-> 1, rootId |-> 0]
  /\ wk = [w \in Workers |-> Local0]
  /\ execs = EmptyMap
  /\ enq = EmptyMap
  /\ nsched = EmptyMap
  /\ nset = EmptyMap
  /\ late = {}
  /\ woke = {}
  /\ eng = Eng0(1)
  /\ out = [n |-> 0, child |-> <<"", 0>>, parent |-> NoMsg,
            store0 |-> EmptyMap, msgs0 |-> <<>>, lost |-> FALSE]

\* scheduleCallNested hands (child, parent message) to addPendingReturn
RedisJobCall ==
  /\ scn.name = "redisjob"
  /\ At(1, "poll")
  /\ out.n < MaxRegistrations
  /\ \E c \in RegChildren, p \in RegParents :
       /\ Set(1, [Local0 EXCEPT !.pc = "ap_get", !.msg = p, !.calls = <<c>>,
                                !.idx = 1])
       /\ out' = [out EXCEPT !.n = @ + 1, !.child = c, !.parent = p,
                             !.store0 = innerByteStore, !.msgs0 = messages]
  /\ UNCHANGED <<woke, scn, innerByteStore, spawnCountStore, messages, cl,
                 execs, enq, nsched, nset, late, eng>>

\* putJob's `this.queue.putMessage(...)`, not awaited, RedisQueue.putMessage:
\* rPush on an open client; QueueIsClosedError, as a rejected promise that
\* putJob drops, on a closed one.  putJob returns either way and
\* addPendingReturn goes on to scheduledAt = now.
AddPutRedis(w) ==
  /\ scn.name = "redisjob"
  /\ At(w, "ap_put")
  /\ LET me == Me(w)
     IN  /\ IF eng.closed
            THEN /\ out' = [out EXCEPT !.lost = TRUE]
                 /\ UNCHANGED <<messages, enq, nsched>>
            ELSE /\ messages' = Append(messages, CallId(me.msg[1], Child(w)))
                 /\ enq' = Bump(enq, me.msg[1])
                 /\ nsched' = Bump(nsched, CallId(me.msg[1], Child(w)))
                 /\ UNCHANGED out
         /\ \E t \in Times :
              Set(w, [me EXCEPT !.pc = "ap_cas", !.again = TRUE,
                        !.existing = PendingReturns(t, me.existing.returns)])
  /\ UNCHANGED <<woke, scn, innerByteStore, spawnCountStore, cl, execs, nset, late, eng>>

\* The runtime ends the process on the rejection that nobody handled
UnhandledRejection(w) ==
  /\ scn.name = "redisjob"
  /\ w <= scn.nw
  /\ out.lost
  /\ wk[w].pc # "dead"
  /\ Set(w, Die(w, "QueueIsClosed"))
  /\ out' = [out EXCEPT !.lost = FALSE]
  /\ UNCHANGED <<woke, scn, innerByteStore, spawnCountStore, messages, cl,
                 execs, enq, nsched, nset, late, eng>>

RedisJobNext ==
  \/ RedisJobCall
  \/ AddGet(1) \/ AddNew(1) \/ AddIncr(1) \/ AddPutRedis(1) \/ AddCas(1)
  \/ Close
  \/ UnhandledRejection(1)

RedisJobSpec == RedisJobInit /\ [][RedisJobNext]_vars

----------------------------------------------------------------------------
(* C38: putJob returns to its caller only when its message is in the       *)
(* queue (a failure of queue.putMessage reaches the caller instead), so a  *)
(* pending-returns record has a non-empty scheduledAt only for a child     *)
(* whose message was enqueued.                                             *)
C38_PutJobReportsFailure ==
  /\ (wk[1].pc = "ap_cas" /\ wk[1].again) =>
       messages = Append(out.msgs0, CallId(out.parent[1], out.child))
  /\ \A c \in RegChildren :
       LET pk == MemKey("pending_returns", c)
       IN  (Has(innerByteStore, pk) /\ PrDecode(innerByteStore[pk]).scheduledAt # 0)
             => \E i \in 1..Len(messages) : messages[i][2] = c

----------------------------------------------------------------------------
(* Two clients of one store and one queue, each making schedule calls of   *)
(* its own; a schedule call is four awaited steps (hasCall, setCall, incr, *)
(* putMessage) and the steps of the two clients interleave.  `out.cls[k]`  *)
(* is client k's position, `out.ids` the rootIds made so far.              *)

Clients == 1..2

ClientCalls == {<<"one", 0>>, <<"one", 1>>}

ClientsInit ==
  /\ scn = Unit("clients")
  /\ eng = Eng0(0)
  /\ innerByteStore = EmptyMap
  /\ Idle
  /\ out = [cls |-> [k \in Clients |->
                       [pc |-> "idle", call |-> <<"", 0>>, rootId |-> 0, n |-> 0]],
            ids |-> 0]

ClientsRest ==
  UNCHANGED <<woke, scn, cl, wk, execs, nsched, nset, late, eng>>

\* schedule(taskName, args): makeCall
ClientSchedule(k) ==
  /\ scn.name = "clients"
  /\ out.cls[k].pc = "idle"
  /\ out.cls[k].n < MaxSchedules
  /\ \E c \in ClientCalls :
       out' = [out EXCEPT !.cls[k] = [pc |-> "has_call", call |-> c,
                                      rootId |-> 0, n |-> @.n + 1]]
  /\ UNCHANGED <<innerByteStore, spawnCountStore, messages, enq>>
  /\ ClientsRest

\* schedule: if (await this.memory.hasCall(call)) return
ClientHasCall(k) ==
  /\ scn.name = "clients"
  /\ out.cls[k].pc = "has_call"
  /\ out' = [out EXCEPT !.cls[k].pc =
               IF Has(innerByteStore, MemKey("call", out.cls[k].call))
               THEN "idle" ELSE "set_call"]
  /\ UNCHANGED <<innerByteStore, spawnCountStore, messages, enq>>
  /\ ClientsRest

\* scheduleRootCall: await this.memory.setCall(call) (store.set), then a
\* fresh rootId
ClientSetCall(k) ==
  /\ scn.name = "clients"
  /\ out.cls[k].pc = "set_call"
  /\ innerByteStore' = Put(innerByteStore, MemKey("call", out.cls[k].call),
                           CallPayload(out.cls[k].call))
  /\ out' = [out EXCEPT !.cls[k].pc = "incr", !.cls[k].rootId = out.ids + 1,
                        !.ids = @ + 1]
  /\ UNCHANGED <<spawnCountStore, messages, enq>>
  /\ ClientsRest

\* putJob: cache.incr(brrr_count/<rootId>), SpawnLimit above the limit
ClientIncr(k) ==
  /\ scn.name = "clients"
  /\ out.cls[k].pc = "incr"
  /\ spawnCountStore' = Incr(spawnCountStore, out.cls[k].rootId)
  /\ out' = [out EXCEPT !.cls[k].pc =
               IF SpawnLimitExceeded(spawnCountStore'[out.cls[k].rootId])
               THEN "failed" ELSE "put"]
  /\ UNCHANGED <<innerByteStore, messages, enq>>
  /\ ClientsRest

\* putJob: queue.putMessage(`${rootId}/${memoKey}`)
ClientPut(k) ==
  /\ scn.name = "clients"
  /\ out.cls[k].pc = "put"
  /\ messages' = Append(messages, CallId(out.cls[k].rootId, out.cls[k].call))
  /\ enq' = Bump(enq, out.cls[k].rootId)
  /\ out' = [out EXCEPT !.cls[k].pc = "idle"]
  /\ UNCHANGED <<innerByteStore, spawnCountStore>>
  /\ ClientsRest

ClientsNext ==
  \E k \in Clients :
    \/ ClientSchedule(k)
    \/ ClientHasCall(k)
    \/ ClientSetCall(k)
    \/ ClientIncr(k)
    \/ ClientPut(k)

ClientsSpec == ClientsInit /\ [][ClientsNext]_vars

\* Root messages enqueued for call c (nothing is taken from the queue here)
RootMessages(c) == {i \in 1..Len(messages) : messages[i][2] = c}

\* rootIds given to call c: in a message or held by a client on its way to
\* putMessage
RootIdsOf(c) ==
  {messages[i][1] : i \in RootMessages(c)}
    \cup {out.cls[k].rootId : k \in {j \in Clients : /\ out.cls[j].call = c
                                                      /\ out.cls[j].pc \in {"incr", "put"}}}

----------------------------------------------------------------------------
(* C39: schedule calls of two clients for the same (task, args), started   *)
(* while no call record exists, make one root workflow: one rootId and one *)
(* enqueued root message for the call.                                     *)
C39_OneRootPerCall ==
  \A c \in ClientCalls :
    /\ Cardinality(RootIdsOf(c)) <= 1
    /\ Cardinality(RootMessages(c)) <= 1
    /\ ((\A k \in Clients : out.cls[k].pc = "idle")
          /\ Has(innerByteStore, MemKey("call", c)))
         => Cardinality(RootMessages(c)) = 1

====
